---------------------------- MODULE Spec2Model ----------------------------
(***************************************************************************)
(* The client snapshot state engine of src/kernel/snap.c as a state        *)
(* machine: the realm index, the realm forest with its reference counts,   *)
(* the cached snap contexts, the per-inode cap-snap lists and the snap     *)
(* flush list, driven by snap messages (ceph_handle_snap) whose trace is   *)
(* applied one encoded realm at a time (ceph_update_snap_trace).           *)
(***************************************************************************)
EXTENDS Integers, Sequences, FiniteSets, TLC

VARIABLES
    realms,     \* mdsc->snap_realms: ino -> struct ceph_snap_realm
    inodes,     \* inode number -> struct ceph_inode_info (snap related fields)
    flush,      \* mdsc->snap_flush_list
    pc,         \* position of the message handler
    cur,        \* the message being handled and the handler's locals
    qlog,       \* calls of ceph_queue_cap_snap made for the current message
    pre,        \* the engine's state when the current message arrived
    nbad,       \* damaged traces delivered so far
    lk,         \* thread -> the lock operations it has yet to do, the locks it holds
    net,        \* the two ends of a messenger connection and the wire between
    two,        \* two clients that are sent the same traces
    rados       \* librados: the init counter, the global client, the calls made

vars == <<realms, inodes, flush, pc, cur, qlog, pre, nbad, lk, net, two, rados>>

\* the state of the snap engine
engine == <<realms, inodes, flush, pc, cur, qlog, pre, nbad>>

-----------------------------------------------------------------------------
(* Bounds of the model *)

\* largest realm seq an encoded realm carries
MaxSeq == 2
\* context allocations of one message that may fail are among the first MaxOom
MaxOom == 2
\* cap-snaps kept on one inode before further messages are held back
MaxCapSnaps == 2
\* references on one realm before further messages are held back
MaxNref == 4
\* damaged traces one session delivers
MaxBad == 1
\* calls of rados_initialize, and of rados_deinitialize, one process makes
MaxCalls == 4
\* dirty pages of an inode's head
MaxDirty == 1
\* send calls on a connection, messages the peer sends, faults, peer restarts
MaxSend == 2
MaxPeerSend == 1
MaxFaults == 1
MaxRestarts == 1
\* connection attempts an endpoint makes
MaxAttempts == 3
\* submissions of work on a connection
MaxWork == 3

\* a null pointer (kzalloc'ed fields, cleared cached_context)
NULL == -1

\* inode numbers of realms named by encoded realms
RealmInos == {1, 2}
\* parent inode numbers an encoded realm may carry (0: no parent)
ParentInos == {0} \cup RealmInos
\* inodes holding caps
InodeIds == {11, 12}
\* threads that run in the snap engine at the same time
Threads == {1, 2}
\* the addresses of two endpoints, and the other one of the two
Ends == {1, 2}
Other(e) == 3 - e
\* the worker threads of the work queue
Workers == {1, 2}
\* the state bits work is submitted with: send, keepalive, socket event
WorkBits == {"WRITE_PENDING", "KEEPALIVE_PENDING", "SOCK_CLOSED"}
\* threads that call ceph_con_send on one connection at the same time
Callers == {1, 2}

-----------------------------------------------------------------------------
(* Helpers on lists *)

\* list_del_init of x from the list l it is linked on
ListDel(l, x) == SelectSeq(l, LAMBDA y : y # x)

\* list_add: insert at the head
ListAdd(l, x) == <<x>> \o l

\* list_add_tail
ListAddTail(l, x) == Append(l, x)

SeqToSet(s) == {s[k] : k \in 1..Len(s)}

-----------------------------------------------------------------------------
(* Realms *)

NullContext == [valid |-> FALSE, seq |-> 0, snaps |-> <<>>]

\* an array pointer that dup_array left NULL while the count beside it is not 0
NullArray == <<NULL>>

\* a realm as kzalloc and ceph_get_snap_realm leave it
NewRealm(ino) ==
    [ino |-> ino, nref |-> 0, seq |-> 0, created |-> 0,
     parent_ino |-> 0, parent |-> NULL, parent_since |-> 0,
     snaps |-> <<>>, prior_parent_snaps |-> <<>>,
     children |-> <<>>, inodes_with_caps |-> <<>>,
     cached_context |-> NullContext]

\* the realm map with realm ino set to r (radix_tree_insert or a field store)
SetRealm(S, ino, r) ==
    [S EXCEPT !.realms =
        [x \in DOMAIN S.realms \cup {ino} |-> IF x = ino THEN r ELSE S.realms[x]]]

\* radix_tree_delete and kfree
DelRealm(S, ino) ==
    [S EXCEPT !.realms = [x \in DOMAIN S.realms \ {ino} |-> S.realms[x]]]

\* a dereference of a freed realm or of a null pointer: the kernel oopses
Oops(S) == [S EXCEPT !.oops = TRUE]

Live(S, ino) == ino \in DOMAIN S.realms

\* find/create the realm rooted at ino and bump its ref count
ceph_get_snap_realm(S, ino) ==
    IF S.oops THEN S
    ELSE LET r == IF Live(S, ino) THEN S.realms[ino] ELSE NewRealm(ino)
         IN  SetRealm(S, ino, [r EXCEPT !.nref = r.nref + 1])

\* a trace that takes no reference on its first realm for the caller
NoRef(S, ino) == S

\* realm->nref++ on a realm held by pointer
RealmRef(S, ino) ==
    IF S.oops THEN S
    ELSE IF ~Live(S, ino) THEN Oops(S)
    ELSE SetRealm(S, ino, [S.realms[ino] EXCEPT !.nref = @ + 1])

\* a destruction that leaves the realm on its parent's children
KeepChild(S, ino) == S

\* list_del_init(&realm->child_item): unlink from the parent's children
UnlinkChild(S, ino) ==
    LET p == S.realms[ino].parent
    IN  IF ~Live(S, p) THEN Oops(S)
        ELSE SetRealm(S, p, [S.realms[p] EXCEPT !.children = ListDel(@, ino)])

RECURSIVE ceph_put_snap_realm(_, _)
ceph_put_snap_realm(S, ino) ==
    IF S.oops THEN S
    ELSE IF ~Live(S, ino) THEN Oops(S)
    ELSE
      LET r  == S.realms[ino]
          S1 == SetRealm(S, ino, [r EXCEPT !.nref = r.nref - 1])
      IN  IF r.nref - 1 # 0 THEN S1
          ELSE IF r.parent # NULL
               THEN LET S2 == UnlinkChild(S1, ino)
                        S3 == ceph_put_snap_realm(S2, r.parent)
                    IN  IF S3.oops THEN S3 ELSE DelRealm(S3, ino)
               ELSE DelRealm(S1, ino)

\* realm->parent_ino = parentino; realm->parent = parent;
\* list_add(&realm->child_item, &parent->children)
SetParent(S, ino, parentino) ==
    IF S.oops \/ ~Live(S, ino) \/ ~Live(S, parentino) THEN Oops(S)
    ELSE [S EXCEPT !.realms[ino].parent_ino = parentino,
                   !.realms[ino].parent = parentino,
                   !.realms[parentino].children = ListAdd(@, ino)]

\* if (realm->parent) { list_del_init(&realm->child_item);
\*                      ceph_put_snap_realm(mdsc, realm->parent); }
DropParent(S, ino) ==
    IF S.oops \/ ~Live(S, ino) THEN Oops(S)
    ELSE IF S.realms[ino].parent = NULL THEN S
    ELSE ceph_put_snap_realm(UnlinkChild(S, ino), S.realms[ino].parent)

\* adjust the parent realm of realm ino; ret is 1 if the parent was changed
adjust_snap_realm_parent(S, ino, parentino) ==
    IF S.oops \/ ~Live(S, ino) THEN [S |-> Oops(S), ret |-> 0]
    ELSE IF S.realms[ino].parent_ino = parentino THEN [S |-> S, ret |-> 0]
    ELSE [S |-> SetParent(DropParent(ceph_get_snap_realm(S, parentino), ino),
                          ino, parentino),
          ret |-> 1]

-----------------------------------------------------------------------------
(* Snap contexts *)

cmpu64_rev(a, b) == IF a < b THEN 1 ELSE IF a > b THEN -1 ELSE 0

\* insert x into the list l, which cmpu64_rev orders, keeping it ordered
RECURSIVE InsertRev(_, _)
InsertRev(l, x) ==
    IF l = <<>> THEN <<x>>
    ELSE IF cmpu64_rev(x, Head(l)) <= 0 THEN <<x>> \o l
    ELSE <<Head(l)>> \o InsertRev(Tail(l), x)

\* sort(snapc->snaps, num, sizeof(u64), cmpu64_rev, NULL)
RECURSIVE SortRev(_)
SortRev(l) == IF l = <<>> THEN <<>> ELSE InsertRev(SortRev(Tail(l)), Head(l))

\* kzalloc of a snap context: the allocations the message's oom set names fail
AllocFails(S) == (S.nalloc + 1) \in S.oom

\* the return of build_snap_context for realm ino, noted for the message
\* being handled
BuildLog(S, ino, err) ==
    [S EXCEPT !.blog = Append(@, [ino |-> ino, err |-> err])]

\* a failure that leaves the realm the context it had
KeepStale(S, ino) == [S |-> BuildLog(S, ino, 1), err |-> 1]

\* the fail: label of build_snap_context
BuildFail(S, ino) ==
    IF S.oops \/ ~Live(S, ino) THEN [S |-> Oops(S), err |-> 1]
    ELSE [S |-> SetRealm(BuildLog(S, ino, 1), ino,
                   [S.realms[ino] EXCEPT !.cached_context = NullContext]),
          err |-> 1]

\* the short cut of build_snap_context: is the cached context still good?
Unchanged(r, parent, S) ==
    /\ r.cached_context.valid
    /\ r.cached_context.seq <= r.seq
    /\ (parent = NULL \/ r.cached_context.seq <= S.realms[parent].cached_context.seq)

\* the snap vector and seq build_snap_context computes for realm r
NewContext(r, parent, S) ==
    LET pc_  == IF parent = NULL THEN NullContext ELSE S.realms[parent].cached_context
        inh  == SelectSeq(pc_.snaps, LAMBDA s : s >= r.parent_since)
        seq_ == IF parent # NULL /\ pc_.seq > r.seq THEN pc_.seq ELSE r.seq
    IN  [valid |-> TRUE, seq |-> seq_,
         snaps |-> SortRev(inh \o r.snaps \o r.prior_parent_snaps)]

\* build_snap_context once the parent's context is there: P is what building
\* the parent gave
BuildOwn(P, ino, parent) ==
    IF P.S.oops THEN [S |-> P.S, err |-> 1]
    ELSE IF P.err # 0 THEN BuildFail(P.S, ino)
    ELSE IF ~Live(P.S, ino) THEN [S |-> Oops(P.S), err |-> 1]
    ELSE IF Unchanged(P.S.realms[ino], parent, P.S)
    THEN [S |-> BuildLog(P.S, ino, 0), err |-> 0]
    ELSE IF AllocFails(P.S) THEN BuildFail([P.S EXCEPT !.nalloc = @ + 1], ino)
    ELSE IF NullArray \in {P.S.realms[ino].snaps, P.S.realms[ino].prior_parent_snaps}
    THEN [S |-> Oops(P.S), err |-> 1]                  \* memcpy from NULL
    ELSE [S |-> [BuildLog(P.S, ino, 0) EXCEPT
                    !.nalloc = @ + 1,
                    !.realms[ino].cached_context =
                        NewContext(P.S.realms[ino], parent, P.S)],
          err |-> 0]

\* build the snap context for a given realm; d is the depth of the recursion
\* into parents, which never ends once it passes through one realm twice
RECURSIVE build_snap_context(_, _, _)
build_snap_context(S, ino, d) ==
    IF S.oops \/ ~Live(S, ino) \/ d > Cardinality(DOMAIN S.realms)
    THEN [S |-> Oops(S), err |-> 1]
    ELSE BuildOwn(
           IF S.realms[ino].parent = NULL THEN [S |-> S, err |-> 0]
           ELSE IF ~Live(S, S.realms[ino].parent) THEN [S |-> Oops(S), err |-> 1]
           ELSE IF ~S.realms[S.realms[ino].parent].cached_context.valid
                THEN build_snap_context(S, S.realms[ino].parent, d + 1)
                ELSE [S |-> S, err |-> 0],
           ino, S.realms[ino].parent)

\* rebuild snap context for the given realm and all of its children; d is
\* the depth of the recursion, which never ends when a realm is its own
\* descendant
RECURSIVE rebuild_snap_realms(_, _, _)
RECURSIVE RebuildChildren(_, _, _)
rebuild_snap_realms(S, ino, d) ==
    IF S.oops \/ ~Live(S, ino) \/ d > Cardinality(DOMAIN S.realms) THEN Oops(S)
    ELSE RebuildChildren(build_snap_context(S, ino, 0).S,
                         S.realms[ino].children, d + 1)

\* list_for_each_entry(child, &realm->children, child_item); building a
\* context leaves the list of children as it was
RebuildChildren(S, kids, d) ==
    IF S.oops \/ kids = <<>> THEN S
    ELSE RebuildChildren(rebuild_snap_realms(S, Head(kids), d), Tail(kids), d)

\* dup_array: the decoded array replaces the prior instance
dup_array(src) == src

-----------------------------------------------------------------------------
(* Inodes and cap-snaps *)

\* an inode without caps: no realm, no cap-snaps, nothing dirty, no write,
\* an empty file (i_size stands for i_size, i_mtime, i_atime, i_ctime and
\* i_time_warp_seq, which change and are captured together)
NewInode ==
    [i_snap_realm |-> NULL, i_cap_snaps |-> <<>>, i_wrbuffer_ref_head |-> 0,
     wr |-> FALSE, i_size |-> 0]

SetInode(S, i, ci) == [S EXCEPT !.inodes[i] = ci]

\* a pending (unfinished, writing) cap-snap already exists on the inode
__ceph_have_pending_cap_snap(ci) ==
    \E k \in 1..Len(ci.i_cap_snaps) : ci.i_cap_snaps[k].writing

\* capsnap->size, mtime, atime, ctime, time_warp_seq are taken from the inode;
\* ret is what the call returns
Finalized(S, i, k, ret) ==
    [S EXCEPT !.inodes[i].i_cap_snaps[k].finish = "done",
              !.inodes[i].i_cap_snaps[k].size = S.inodes[i].i_size,
              !.inodes[i].i_cap_snaps[k].ret = ret]

\* a finish that puts the inode on the snap flush list whatever is dirty
FlushListed(S, i, k) == [Finalized(S, i, k, 1) EXCEPT !.flush = ListAddTail(@, i)]

\* the end of __ceph_finish_cap_snap: with dirty pages left return 0, else add
\* the inode to the snap flush list and return 1
FinishFlushable(S, i, k) ==
    IF S.inodes[i].i_cap_snaps[k].dirty # 0 THEN Finalized(S, i, k, 0)
    ELSE [Finalized(S, i, k, 1) EXCEPT !.flush = ListAddTail(@, i)]

\* Finalize the size, mtime for cap-snap k of inode i (finish: "none" before
\* the call, "done" after it, "BUG" if the call found the cap-snap writing);
\* if it can now be flushed, add the inode to the snap flush list
__ceph_finish_cap_snap(S, i, k) ==
    IF S.oops THEN S
    ELSE IF S.inodes[i].i_cap_snaps[k].writing         \* BUG_ON(capsnap->writing)
    THEN Oops([S EXCEPT !.inodes[i].i_cap_snaps[k].finish = "BUG"])
    ELSE FinishFlushable(S, i, k)

\* capsnap->follows = snapc->seq - 1 on a u64: 0 - 1 wraps to the largest u64,
\* which U64Wrap stands for
U64Wrap == -1
Follows(seq) == IF seq = 0 THEN U64Wrap ELSE seq - 1

\* the call of ceph_queue_cap_snap, noted for the message being handled
LogCall(S, i, snapc) ==
    [S EXCEPT !.qlog = Append(@, [ino |-> i, ctx |-> snapc, at |-> S.at])]

\* a cap-snap that copies the dirty page count of the head and leaves it
HeadKept(S, i, snapc, writing) ==
    [S EXCEPT !.inodes[i].i_cap_snaps =
                  ListAddTail(@, [follows |-> Follows(snapc.seq),
                                  context |-> snapc,
                                  dirty |-> S.inodes[i].i_wrbuffer_ref_head,
                                  writing |-> writing,
                                  finish |-> "none",
                                  size |-> NULL, ret |-> NULL])]

\* the cap-snap ceph_queue_cap_snap appends: the dirty page count of the head
\* moves to it
AddCapSnap(S, i, snapc, writing) ==
    [S EXCEPT !.inodes[i].i_wrbuffer_ref_head = 0,
              !.inodes[i].i_cap_snaps =
                  ListAddTail(@, [follows |-> Follows(snapc.seq),
                                  context |-> snapc,
                                  dirty |-> S.inodes[i].i_wrbuffer_ref_head,
                                  writing |-> writing,
                                  finish |-> "none",
                                  size |-> NULL, ret |-> NULL])]

\* a queueing that finishes the cap-snap whether or not a write is in progress
FinishAtOnce(S, i, snapc) ==
    IF ~snapc.valid THEN Oops(S)
    ELSE __ceph_finish_cap_snap(AddCapSnap(S, i, snapc, S.inodes[i].wr),
                                i, Len(S.inodes[i].i_cap_snaps) + 1)

\* the else branch of ceph_queue_cap_snap: fill in the cap-snap, append it,
\* and finish it unless a write is in progress
NewCapSnap(S, i, snapc) ==
    IF ~snapc.valid THEN Oops(S)                        \* snapc->seq of NULL
    ELSE IF S.inodes[i].wr THEN AddCapSnap(S, i, snapc, TRUE)
    ELSE __ceph_finish_cap_snap(AddCapSnap(S, i, snapc, FALSE),
                                i, Len(S.inodes[i].i_cap_snaps) + 1)

\* a queueing that does not look for a pending cap-snap
QueueUnchecked(S, i, snapc) ==
    IF S.oops THEN S ELSE NewCapSnap(LogCall(S, i, snapc), i, snapc)

\* ceph_queue_cap_snap(ci, snapc), snapc a context or NullContext for NULL;
\* it returns at once when the cap-snap cannot be allocated
ceph_queue_cap_snap(S, i, snapc) ==
    IF S.oops THEN S
    ELSE IF S.capoom THEN LogCall(S, i, snapc)
    ELSE IF __ceph_have_pending_cap_snap(S.inodes[i]) THEN LogCall(S, i, snapc)
    ELSE NewCapSnap(LogCall(S, i, snapc), i, snapc)

\* list_for_each over realm ino's inodes_with_caps, queueing a cap-snap on each
\* under the realm's cached context.  An item that was linked onto another
\* realm's list without being unlinked from this one leads the walk astray.
RECURSIVE QueueInodes(_, _, _)
QueueInodes(S, l, ino) ==
    IF S.oops \/ l = <<>> THEN S
    ELSE IF S.inodes[Head(l)].i_snap_realm # ino THEN Oops(S)
    ELSE QueueInodes(
            ceph_queue_cap_snap(S, Head(l), S.realms[ino].cached_context),
            Tail(l), ino)

\* __ceph_flush_snaps(ci): send the cap-snaps that are clean and not being
\* written, drop them, and take the inode off the snap flush list
__ceph_flush_snaps(S, i) ==
    [S EXCEPT !.inodes[i].i_cap_snaps =
                  SelectSeq(@, LAMBDA c : c.dirty # 0 \/ c.writing),
              !.flush = ListDel(@, i)]

\* flush_snaps: send any cap-snaps that are queued for flush.  An inode that
\* was added to the list twice stays its first item whatever is unlinked, and
\* the loop never ends.
RECURSIVE flush_snaps(_)
flush_snaps(S) ==
    IF S.oops \/ S.flush = <<>> THEN S
    ELSE IF \E k \in 2..Len(S.flush) : S.flush[k] = Head(S.flush) THEN Oops(S)
    ELSE flush_snaps(__ceph_flush_snaps(S, Head(S.flush)))

-----------------------------------------------------------------------------
(* ceph_update_snap_trace: one encoded realm of the trace *)

\* One pass of the more: loop for the encoded realm ri, told from its end.  c
\* holds the locals first, invalidate and deletion; last says that ri ends
\* the buffer (p == e).

\* the end of the pass: rebuild the contexts when the trace ends and
\* something was invalidated, and drop the reference on the realm
TraceRebuild(S, invalidate, c, ri, last) ==
    [S |-> ceph_put_snap_realm(
              IF last /\ invalidate # 0
              THEN rebuild_snap_realms(S, ri.ino, 0)
              ELSE S,
              ri.ino),
     first |-> IF c.first = NULL THEN ri.ino ELSE c.first,
     invalidate |-> invalidate, err |-> FALSE]

\* goto fail: the pass ends with the realm as it is, the trace with an error
TraceFail(S, c, ri) ==
    [S |-> S, first |-> IF c.first = NULL THEN ri.ino ELSE c.first,
     invalidate |-> c.invalidate, err |-> TRUE]

\* the update of the realm up to the dup_array that cannot allocate: seq,
\* created, parent_since and num_snaps are set, the old snaps are freed and
\* the pointer is NULL
UpdateCutShort(S, ri) ==
    [S EXCEPT !.realms[ri.ino].seq = ri.seq,
              !.realms[ri.ino].created = ri.created,
              !.realms[ri.ino].parent_since = ri.parent_since,
              !.realms[ri.ino].snaps = NullArray]

\* A is what adjust_snap_realm_parent gave: update the realm if the encoded
\* one is newer, and decide whether its context is to be rebuilt
TraceUpdate(A, c, ri, last) ==
    IF A.S.oops \/ ~Live(A.S, ri.ino)
    THEN TraceRebuild(Oops(A.S), c.invalidate, c, ri, last)
    ELSE IF ri.seq > A.S.realms[ri.ino].seq /\ A.S.dupoom /\ ri.snaps # <<>>
    THEN TraceFail(UpdateCutShort(A.S, ri), c, ri)
    ELSE IF ri.seq > A.S.realms[ri.ino].seq
    THEN TraceRebuild(
            [A.S EXCEPT !.realms[ri.ino].seq = ri.seq,
                        !.realms[ri.ino].created = ri.created,
                        !.realms[ri.ino].parent_since = ri.parent_since,
                        !.realms[ri.ino].snaps = dup_array(ri.snaps),
                        !.realms[ri.ino].prior_parent_snaps =
                            dup_array(ri.prior_parent_snaps)],
            1, c, ri, last)
    ELSE TraceRebuild(A.S,
            IF ~A.S.realms[ri.ino].cached_context.valid THEN 1
            ELSE c.invalidate + A.ret,
            c, ri, last)

\* a pass that queues a cap-snap on the realm's inodes whatever the encoded
\* seq and the operation are
TraceQueueAlways(S, c, ri, last) ==
    IF S.oops \/ ~Live(S, ri.ino)
    THEN TraceRebuild(Oops(S), c.invalidate, c, ri, last)
    ELSE TraceUpdate(
            adjust_snap_realm_parent(
               QueueInodes(S, S.realms[ri.ino].inodes_with_caps, ri.ino),
               ri.ino, ri.parent),
            c, ri, last)

\* S holds the realm: queue a cap-snap on its inodes if the encoded realm is
\* newer, then adjust the parent
TraceQueue(S, c, ri, last) ==
    IF S.oops \/ ~Live(S, ri.ino)
    THEN TraceRebuild(Oops(S), c.invalidate, c, ri, last)
    ELSE TraceUpdate(
            adjust_snap_realm_parent(
               IF ri.seq > S.realms[ri.ino].seq /\ ~c.deletion
               THEN QueueInodes(S, S.realms[ri.ino].inodes_with_caps, ri.ino)
               ELSE S,
               ri.ino, ri.parent),
            c, ri, last)

\* one pass of the loop of ceph_update_snap_trace over the encoded realm ri;
\* last: no encoded realm follows it
update_snap_trace_entry(S, c, ri, last) ==
    TraceQueue(
       IF c.first = NULL
       THEN RealmRef(ceph_get_snap_realm(S, ri.ino), ri.ino)
       ELSE ceph_get_snap_realm(S, ri.ino),
       c, ri, last)

-----------------------------------------------------------------------------
(* ceph_handle_snap: the split *)

\* a first loop that queues the cap-snaps but leaves the inodes on the lists
\* of their realms
RECURSIVE SplitQueueOnly(_, _, _)
SplitQueueOnly(S, inos, ri) ==
    IF S.oops \/ inos = <<>> THEN S
    ELSE IF S.inodes[Head(inos)].i_snap_realm = NULL
         THEN SplitQueueOnly(S, Tail(inos), ri)
    ELSE IF ~Live(S, S.inodes[Head(inos)].i_snap_realm) THEN Oops(S)
    ELSE IF S.realms[S.inodes[Head(inos)].i_snap_realm].created > ri.created
         THEN SplitQueueOnly(S, Tail(inos), ri)
    ELSE SplitQueueOnly(
            ceph_queue_cap_snap(S, Head(inos),
               S.realms[S.inodes[Head(inos)].i_snap_realm].cached_context),
            Tail(inos), ri)

\* the first loop over split_inos: take the inodes that move off their realm's
\* list and queue their cap-snap under the old context
RECURSIVE SplitDetach(_, _, _)
SplitDetach(S, inos, ri) ==
    IF S.oops \/ inos = <<>> THEN S
    ELSE
      LET i  == Head(inos)
          ci == S.inodes[i]
          old == ci.i_snap_realm
      IN  IF old = NULL THEN SplitDetach(S, Tail(inos), ri)
          ELSE IF ~Live(S, old) THEN Oops(S)
          ELSE IF S.realms[old].created > ri.created
               THEN SplitDetach(S, Tail(inos), ri)
          ELSE
            LET S1 == SetRealm(S, old,
                        [S.realms[old] EXCEPT !.inodes_with_caps = ListDel(@, i)])
                S2 == ceph_queue_cap_snap(S1, i, S1.realms[old].cached_context)
            IN  SplitDetach(S2, Tail(inos), ri)

\* a split that leaves the listed child realms where they are
ChildrenLeft(S, kids, split) == S

\* the loop over split_realms: the children the new realm takes over
RECURSIVE SplitChildren(_, _, _)
SplitChildren(S, kids, split) ==
    IF S.oops \/ kids = <<>> THEN S
    ELSE
      LET S1 == ceph_get_snap_realm(S, Head(kids))
          S2 == adjust_snap_realm_parent(S1, Head(kids), split).S
          S3 == ceph_put_snap_realm(S2, Head(kids))
      IN  SplitChildren(S3, Tail(kids), split)

\* the second loop over split_inos: add the inodes into the new realm
RECURSIVE SplitAttach(_, _, _)
SplitAttach(S, inos, realm) ==
    IF S.oops \/ inos = <<>> THEN S
    ELSE
      LET i  == Head(inos)
          old == S.inodes[i].i_snap_realm
          S1 == IF old = NULL THEN Oops(S) ELSE ceph_put_snap_realm(S, old)
          S2 == IF S1.oops \/ ~Live(S1, realm) THEN Oops(S1)
                ELSE SetInode(
                       SetRealm(S1, realm,
                          [S1.realms[realm] EXCEPT
                              !.inodes_with_caps = ListAdd(@, i),
                              !.nref = @ + 1]),
                       i, [S1.inodes[i] EXCEPT !.i_snap_realm = realm])
      IN  SplitAttach(S2, Tail(inos), realm)

\* ceph_add_cap: an inode that is granted its first cap joins the realm and
\* takes a reference on it
ceph_add_cap(S, i, realm) ==
    IF S.oops \/ ~Live(S, realm) THEN Oops(S)
    ELSE IF S.inodes[i].i_snap_realm # NULL THEN S
    ELSE SetInode(
           SetRealm(S, realm,
              [S.realms[realm] EXCEPT !.inodes_with_caps = ListAdd(@, i),
                                      !.nref = @ + 1]),
           i, [S.inodes[i] EXCEPT !.i_snap_realm = realm])

-----------------------------------------------------------------------------
(* Messages *)

\* an encoded realm (struct ceph_mds_snap_realm and its two arrays).  The MDS
\* stamps a realm with the snapid of its creation, here its inode number; a
\* realm at seq s carries the snapshot s, its parent is its parent since s,
\* and past seq 1 it carries snapshot 1 as inherited from a prior parent.
Entry(ino, seq, parent) ==
    [ino |-> ino, seq |-> seq, created |-> ino, parent |-> parent,
     parent_since |-> seq,
     snaps |-> <<seq>>,
     prior_parent_snaps |-> IF seq > 1 THEN <<1>> ELSE <<>>]

Entries ==
    {Entry(ino, seq, parent) :
        ino \in RealmInos, seq \in 1..MaxSeq, parent \in ParentInos}

\* the encoded realms that may follow e in a trace: e's parent, as a root
Roots(e) ==
    {r \in Entries : r.ino = e.parent /\ r.ino # e.ino /\ r.parent = 0}

\* traces: one encoded realm, or a realm followed by its parent, a root
Traces ==
    {<<e>> : e \in Entries}
    \cup UNION {{<<e, r>> : r \in Roots(e)} : e \in Entries}

Msg(op, trace, trunc, oom, split, inos, kids, inode) ==
    [op |-> op, trace |-> trace, trunc |-> trunc, oom |-> oom, capoom |-> FALSE,
     dupoom |-> FALSE,
     split |-> split, split_inos |-> inos, split_realms |-> kids, inode |-> inode]

\* The messages an MDS session delivers: snap notifications and cap grants,
\* which carry the trace of the inode's realm.  CEPH_SNAP_OP_CREATE takes the
\* path of UPDATE: ceph_handle_snap tests op against SPLIT and DESTROY only.
Update(t) == Msg("UPDATE", t, FALSE, {}, 0, <<>>, <<>>, 0)
Destroy(t) == Msg("DESTROY", t, FALSE, {}, 0, <<>>, <<>>, 0)
Grant(t, i) == Msg("GRANT", t, FALSE, {}, 0, <<>>, <<>>, i)
SplitOff(t, inos, kids) == Msg("SPLIT", t, FALSE, {}, t[1].ino, inos, kids, 0)

\* well-formed messages: the new realm of a split is the first of its trace
Msgs ==
    {Update(t) : t \in Traces}
    \cup {Destroy(<<e>>) : e \in Entries}
    \cup {Grant(t, i) : t \in Traces, i \in InodeIds}
    \cup {SplitOff(t, inos, <<>>) : t \in Traces, inos \in {<<11>>, <<11, 12>>}}

\* a trace cut short after its last well-formed encoded realm
Truncated(m) == [m EXCEPT !.trunc = TRUE]

\* a message during which the context allocations numbered in oom fail
Starved(m, oom) == [m EXCEPT !.oom = oom]

\* a message during which no cap-snap can be allocated
CapStarved(m) == [m EXCEPT !.capoom = TRUE]

\* a message during which dup_array cannot allocate
DupStarved(m) == [m EXCEPT !.dupoom = TRUE]

RootTraces == {<<e>> : e \in {r \in Entries : r.parent = 0}}

\* messages of a session that also delivers damaged traces and runs short of
\* memory
ErrMsgs ==
    LET good == {Update(t) : t \in Traces}
                \cup {Grant(t, 11) : t \in RootTraces}
                \cup {SplitOff(t, <<11>>, <<>>) : t \in RootTraces}
    IN  good
        \cup {Truncated(m) : m \in {g \in good : g.op # "GRANT"}}
        \cup {Starved(m, oom) : m \in {g \in good : g.op = "UPDATE"},
                                oom \in SUBSET (1..MaxOom)}

-----------------------------------------------------------------------------
(* The state machine *)

NoMsg == Msg("NONE", <<>>, FALSE, {}, 0, <<>>, <<>>, 0)

\* the handler's locals between messages
Idle == [msg |-> NoMsg, n |-> 0, first |-> NULL, invalidate |-> 0,
         deletion |-> FALSE, realm |-> NULL, nalloc |-> 0, blog |-> <<>>]

Snapshot == [realms |-> realms, inodes |-> inodes, flush |-> flush]

NoSnapshot == [realms |-> <<>>, inodes |-> <<>>, flush |-> <<>>]

\* the engine's state as the operators thread it
Pack(at) ==
    [realms |-> realms, inodes |-> inodes, flush |-> flush, qlog |-> qlog,
     oops |-> FALSE, nalloc |-> cur.nalloc, oom |-> cur.msg.oom,
     capoom |-> cur.msg.capoom, dupoom |-> cur.msg.dupoom, at |-> at,
     blog |-> cur.blog]

\* store what a step computed; a step that oopsed ends the run, with the
\* memory as it was when the kernel stopped
Commit(S, next, c) ==
    /\ realms' = S.realms
    /\ inodes' = S.inodes
    /\ flush' = S.flush
    /\ qlog' = S.qlog
    /\ cur' = IF S.oops THEN cur ELSE [c EXCEPT !.nalloc = S.nalloc, !.blog = S.blog]
    /\ pc' = IF S.oops THEN "oops" ELSE next
    /\ UNCHANGED <<pre, nbad, lk, net, two, rados>>

\* no item is linked twice
NoDup(l) == \A j, k \in 1..Len(l) : l[j] = l[k] => j = k

\* A list_add of an item that is still linked corrupts the list: the
\* inodes_with_caps of a realm holds an inode of another realm, or a list
\* holds an item twice.  What the kernel does with such a list is undefined.
ListsCorrupt ==
    \E x \in DOMAIN realms :
          \/ ~NoDup(realms[x].inodes_with_caps)
          \/ \E k \in 1..Len(realms[x].inodes_with_caps) :
                inodes[realms[x].inodes_with_caps[k]].i_snap_realm # x

\* threads that have nothing to do and hold nothing
NoThreads == [t \in Threads |-> [ops |-> <<>>, held |-> <<>>]]

\* the peer's end of a connection before the first connect, and after a restart
NewPeer == [session |-> FALSE, in_seq |-> 0, in_seq_acked |-> 0, out_seq |-> 0]

\* a caller that is not in ceph_con_send
NoPend == [id |-> 0, seq |-> 0]

NoReply == [code |-> "NONE", ack |-> 0]

\* a lossless connection that was never opened, as the local end, the peer's
\* end and the socket between them:
\*   lock        the caller that holds out_queue_lock, 0 for none
\*   pend        caller -> the message it numbered and has yet to append
\*   to_peer, to_local   what was written to the socket and not yet read
\*   ncalls, dispatched, received, dropped, peer_resets, faults, restarts
\*               history: send calls made, messages passed to dispatch by the
\*               peer and by the local end, duplicates the peer dropped,
\*               peer_reset callbacks, send calls made before the last of
\*               them, faults, restarts of the peer
NewCon ==
    [state |-> "CONNECTING", connect_seq |-> 0,
     out_queue |-> <<>>, out_sent |-> <<>>, out_seq |-> 0, in_seq |-> 0,
     lock |-> 0, pend |-> [c \in Callers |-> NoPend],
     peer |-> NewPeer, reply |-> NoReply,
     to_peer |-> <<>>, to_local |-> <<>>,
     ncalls |-> 0, dispatched |-> <<>>, received |-> <<>>, dropped |-> 0,
     peer_resets |-> 0, reset_at |-> 0, faults |-> 0, restarts |-> 0]

\* two endpoints that have not connected to each other, by address:
\*   att      the state of the endpoint's own attempt to connect to the other
\*   acc      the endpoint has accepted the other's attempt
\*   connect  the endpoint's connect record is on its way to the other
\*   reply    the reply on its way to the endpoint
\*   global_seq   the attempts the endpoint has made
\*   raced    the endpoint has answered a connect with an attempt of its own
NewRace ==
    [att |-> [e \in Ends |-> "NEW"], acc |-> [e \in Ends |-> FALSE],
     connect |-> [e \in Ends |-> FALSE], reply |-> [e \in Ends |-> "NONE"],
     global_seq |-> [e \in Ends |-> 0], raced |-> [e \in Ends |-> FALSE]]
\* a connection with no work and the workers of the work queue:
\*   state    the state bits that are set
\*   queued   the connection's work item is on the work queue
\*   at       worker -> where it is in con_work
\*   nwork    the work submitted so far
NewWork ==
    [state |-> {}, queued |-> FALSE, at |-> [w \in Workers |-> "idle"], nwork |-> 0]

\* the messenger before anything was sent
NoNet == [con |-> NewCon, race |-> NewRace, work |-> NewWork]

\* a client that has seen no trace and holds no cap
NewClient ==
    [realms |-> <<>>, inodes |-> [i \in InodeIds |-> NewInode], flush |-> <<>>,
     oops |-> FALSE]

\* two such clients; seen: the highest seq the MDS has sent of each realm
NoClients == [a |-> NewClient, b |-> NewClient, seen |-> [x \in RealmInos |-> 0]]

\* librados before any call (static int rados_initialized = 0; static
\* RadosClient *radosp):
\*   rados_initialized   the init counter
\*   radosp      the global client pointer: NULL or the client it points at
\*   clients     the RadosClient objects that exist
\*   created, deleted    the clients made by new and destroyed by delete
\*   ninit, ndeinit      the calls of rados_initialize and rados_deinitialize
\*   last        how the last call of rados_open_pool went
\*   crashed     the process has faulted
NoRados ==
    [rados_initialized |-> 0, radosp |-> NULL, clients |-> {},
     created |-> 0, deleted |-> 0, ninit |-> 0, ndeinit |-> 0,
     last |-> "none", crashed |-> FALSE]

Init ==
    /\ realms = <<>>
    /\ inodes = [i \in InodeIds |-> NewInode]
    /\ flush = <<>>
    /\ pc = "idle"
    /\ cur = Idle
    /\ qlog = <<>>
    /\ pre = NoSnapshot
    /\ nbad = 0
    /\ lk = NoThreads
    /\ net = NoNet
    /\ two = NoClients
    /\ rados = NoRados

\* no inode carries more cap-snaps than the model keeps
Room ==
    /\ \A i \in InodeIds : Len(inodes[i].i_cap_snaps) < MaxCapSnaps
    /\ \A x \in DOMAIN realms : realms[x].nref <= MaxNref

\* a message arrives: ceph_handle_snap up to the test of op, or a cap grant
Recv(m) ==
    /\ pc = "idle"
    /\ Room
    /\ pc' = IF m.op = "SPLIT" THEN "split" ELSE "trace"
    /\ cur' = [Idle EXCEPT !.msg = m, !.deletion = (m.op = "DESTROY")]
    /\ pre' = Snapshot
    /\ qlog' = <<>>
    /\ m.trunc => nbad < MaxBad
    /\ nbad' = IF m.trunc THEN nbad + 1 ELSE nbad
    /\ UNCHANGED <<realms, inodes, flush, lk, net, two, rados>>

\* ceph_handle_snap, op == CEPH_SNAP_OP_SPLIT: peek at the new realm, detach
\* the inodes that move, reparent the children
Split ==
    /\ pc = "split"
    /\ IF cur.msg.trace = <<>>
       THEN /\ pc' = "bad"
            /\ UNCHANGED <<realms, inodes, flush, cur, qlog, pre, nbad, lk, net, two, rados>>
       ELSE LET ri == cur.msg.trace[1]
                S1 == ceph_get_snap_realm(Pack(0), cur.msg.split)
                S2 == SplitDetach(S1, cur.msg.split_inos, ri)
                S3 == SplitChildren(S2, cur.msg.split_realms, cur.msg.split)
            IN  Commit(S3, "trace", [cur EXCEPT !.realm = cur.msg.split])

\* the encoded realm being decoded is the last and the trace ends after it
LastEntry == cur.n + 1 = Len(cur.msg.trace) /\ ~cur.msg.trunc

\* store what one pass of the loop gave, R, and go on with the next pass or
\* return the first realm of the trace
TraceCommit(R, last) ==
    Commit(R.S, IF R.err THEN "bad" ELSE IF last THEN "finish" ELSE "trace",
           [cur EXCEPT !.n = @ + 1, !.first = R.first,
                       !.invalidate = R.invalidate,
                       !.realm = IF last /\ ~R.err THEN R.first ELSE @])

\* ceph_update_snap_trace: decode and apply the next encoded realm
Trace ==
    /\ pc = "trace"
    /\ IF cur.n >= Len(cur.msg.trace)
       THEN \* ceph_decode_need fails: bad
            /\ pc' = "bad"
            /\ UNCHANGED <<realms, inodes, flush, cur, qlog, pre, nbad, lk, net, two, rados>>
       ELSE TraceCommit(
               update_snap_trace_entry(Pack(cur.n + 1), cur,
                  cur.msg.trace[cur.n + 1], LastEntry),
               LastEntry)

\* ceph_handle_snap after the trace, up to up_write(snap_rwsem): attach the
\* split inodes and drop the references; a cap grant adds the cap and drops
\* its reference
FinishWork ==
    LET S0 == Pack(cur.n + 1)
        m  == cur.msg
    IN  IF m.op = "GRANT"
        THEN ceph_put_snap_realm(ceph_add_cap(S0, m.inode, cur.realm), cur.realm)
        ELSE ceph_put_snap_realm(
                IF m.op = "SPLIT"
                THEN ceph_put_snap_realm(
                        SplitAttach(S0, m.split_inos, cur.realm), cur.realm)
                ELSE S0,
                cur.realm)

\* the end of the handler: flush_snaps, called with snap_rwsem released
Finish ==
    /\ pc = "finish"
    /\ Commit(flush_snaps(FinishWork), "done", cur)

\* the handler returns: after the flush, or from bad: with the message dropped
Return ==
    /\ pc \in {"done", "bad"}
    /\ pc' = IF ListsCorrupt THEN "oops" ELSE "idle"
    /\ cur' = Idle
    /\ qlog' = <<>>
    /\ pre' = NoSnapshot
    /\ UNCHANGED <<realms, inodes, flush, nbad, lk, net, two, rados>>

\* the least of a set of positions, 0 if there is none
First(K) == IF K = {} THEN 0 ELSE CHOOSE k \in K : \A j \in K : k <= j

FirstWriting(l) == First({k \in 1..Len(l) : l[k].writing})

FirstDirty(l) == First({k \in 1..Len(l) : l[k].dirty > 0})

\* a finished cap-snap became flushable: the caller flushes the inode's snaps
FlushIfListed(S, i) ==
    IF ~S.oops /\ i \in SeqToSet(S.flush) THEN __ceph_flush_snaps(S, i) ELSE S

\* a write to inode i begins; none begins while a cap-snap is pending
StartWrite(i) ==
    /\ pc = "idle"
    /\ inodes[i].i_snap_realm # NULL
    /\ ~inodes[i].wr
    /\ ~__ceph_have_pending_cap_snap(inodes[i])
    /\ inodes' = [inodes EXCEPT ![i].wr = TRUE]
    /\ UNCHANGED <<realms, flush, pc, cur, qlog, pre, nbad, lk, net, two, rados>>

\* the write in progress dirties a page of the head, the file growing to
\* hold it
DirtyPage(i) ==
    /\ pc = "idle"
    /\ inodes[i].wr
    /\ inodes[i].i_wrbuffer_ref_head < MaxDirty
    /\ inodes' = [inodes EXCEPT
                     ![i].i_wrbuffer_ref_head = @ + 1,
                     ![i].i_size = IF @ < inodes[i].i_wrbuffer_ref_head + 1
                                   THEN inodes[i].i_wrbuffer_ref_head + 1 ELSE @]
    /\ UNCHANGED <<realms, flush, pc, cur, qlog, pre, nbad, lk, net, two, rados>>

\* the write completes: the pending cap-snap, if any, stops writing and is
\* finished
FinishWrite(i) ==
    /\ pc = "idle"
    /\ inodes[i].wr
    /\ LET k  == FirstWriting(inodes[i].i_cap_snaps)
           S0 == SetInode(Pack(0), i, [inodes[i] EXCEPT !.wr = FALSE])
           S1 == IF k = 0 THEN S0
                 ELSE FlushIfListed(
                        __ceph_finish_cap_snap(
                           [S0 EXCEPT !.inodes[i].i_cap_snaps[k].writing = FALSE],
                           i, k),
                        i)
       IN  Commit(S1, "idle", cur)

\* a dirty page of inode i is written back: one of the oldest cap-snap that
\* has any, else one of the head; a cap-snap left clean and not writing is
\* put on the flush list and flushed
Writeback(i) ==
    /\ pc = "idle"
    /\ LET l == inodes[i].i_cap_snaps
           k == FirstDirty(l)
       IN  IF k = 0
           THEN /\ inodes[i].i_wrbuffer_ref_head > 0
                /\ inodes' = [inodes EXCEPT ![i].i_wrbuffer_ref_head = @ - 1]
                /\ UNCHANGED <<realms, flush, pc, cur, qlog, pre, nbad, lk, net, two, rados>>
           ELSE LET S0 == [Pack(0) EXCEPT !.inodes[i].i_cap_snaps[k].dirty = @ - 1]
                    c  == S0.inodes[i].i_cap_snaps[k]
                    S1 == IF c.dirty = 0 /\ ~c.writing
                          THEN FlushIfListed(
                                 [S0 EXCEPT !.flush = ListAddTail(@, i)], i)
                          ELSE S0
                IN  Commit(S1, "idle", cur)

Next ==
    \/ \E m \in Msgs : Recv(m)
    \/ Split
    \/ Trace
    \/ Finish
    \/ Return

Spec == Init /\ [][Next]_vars

\* the engine under damaged traces and failing allocations
NextErr ==
    \/ \E m \in ErrMsgs : Recv(m)
    \/ Split
    \/ Trace
    \/ Finish
    \/ Return

SpecErr == Init /\ [][NextErr]_vars

\* messages of a session whose inodes are being written
CapMsgs ==
    {Update(t) : t \in RootTraces}
    \cup {Grant(t, i) : t \in RootTraces, i \in InodeIds}
    \cup {SplitOff(t, <<11>>, <<>>) : t \in RootTraces}
    \cup {CapStarved(Update(t)) : t \in RootTraces}

\* the inodes that are written
Writers == {11}

\* messages of a session that runs short of memory while it builds contexts
OomMsgs ==
    {Update(t) : t \in Traces}
    \cup {Grant(t, 11) : t \in Traces}
    \cup {SplitOff(t, <<11>>, <<>>) : t \in RootTraces}
    \cup {Starved(Update(t), oom) : t \in Traces, oom \in SUBSET (1..MaxOom) \ {{}}}

\* the engine under failing context allocations
NextOom ==
    \/ \E m \in OomMsgs : Recv(m)
    \/ Split
    \/ Trace
    \/ Finish
    \/ Return

SpecOom == Init /\ [][NextOom]_vars

\* messages of a session that runs short of memory while it copies the snaps
\* of a trace
DupMsgs ==
    {Update(t) : t \in Traces}
    \cup {Grant(t, 11) : t \in RootTraces}
    \cup {SplitOff(t, <<11>>, <<>>) : t \in RootTraces}
    \cup {DupStarved(Update(t)) : t \in Traces}

\* the engine under failing allocations of snap arrays
NextDup ==
    \/ \E m \in DupMsgs : Recv(m)
    \/ Split
    \/ Trace
    \/ Finish
    \/ Return

SpecDup == Init /\ [][NextDup]_vars

\* the realms of a session that splits realms with children off
SplitRealms == RealmInos \cup {3}

\* the encoded realms of such a session, each at its first seq
SplitEntries ==
    {Entry(ino, 1, parent) : ino \in SplitRealms, parent \in {0} \cup SplitRealms}

SplitRoots == {r \in SplitEntries : r.parent = 0}

\* the trace of a realm and its ancestors: each encoded realm names the next
\* as its parent, the last is a root
SplitTraces ==
    {<<r>> : r \in SplitRoots}
    \cup UNION {{<<e, r>> : r \in {q \in SplitRoots : q.ino = e.parent}}
                  : e \in {q \in SplitEntries : q.parent # q.ino}}

\* the lists of child realms a split of the trace t may carry: realms that
\* are neither the new realm nor one of its ancestors
KidLists(t) ==
    LET free == SplitRealms \ {t[k].ino : k \in DOMAIN t}
    IN  {<<x>> : x \in free}
        \cup UNION {{<<x, y>> : y \in free \ {x}} : x \in free}

\* messages of a session that splits realms with children off
SplitMsgs ==
    {Grant(t, i) : t \in SplitTraces, i \in InodeIds}
    \cup UNION {UNION {{SplitOff(t, inos, kids) : kids \in KidLists(t)}
                          : inos \in {<<>>, <<11>>}}
                  : t \in SplitTraces}

NextSplit ==
    \/ \E m \in SplitMsgs : Recv(m)
    \/ Split
    \/ Trace
    \/ Finish
    \/ Return

SpecSplit == Init /\ [][NextSplit]_vars

\* messages of a session some of whose traces arrive damaged
\* (realm 1 is updated, realm 2 is split off it)
FlushMsgs ==
    LET of(x) == {t \in RootTraces : t[1].ino = x}
    IN  {Update(t) : t \in of(1)}
        \cup {Grant(t, 11) : t \in of(1)}
        \cup {SplitOff(t, <<11>>, <<>>) : t \in of(2)}
        \cup {Truncated(Update(t)) : t \in of(1)}

NextFlush ==
    \/ \E m \in FlushMsgs : Recv(m)
    \/ Split
    \/ Trace
    \/ Finish
    \/ Return

\* the handler that has applied the trace goes on to its end: messages come
\* as they may, the step that ends with flush_snaps is taken in the end
SpecFlush ==
    /\ Init /\ [][NextFlush]_vars
    /\ WF_vars(Finish)

\* a split whose head names the realm split, whatever its trace begins with
SplitFrom(split, t, inos) == [SplitOff(t, inos, <<>>) EXCEPT !.split = split]

\* messages of a session whose splits may name a realm other than the first
\* of their trace
RefMsgs ==
    {Update(t) : t \in RootTraces}
    \cup {Grant(t, i) : t \in RootTraces, i \in InodeIds}
    \cup {SplitFrom(x, t, inos) :
             x \in RealmInos, t \in RootTraces, inos \in {<<>>, <<11>>}}

NextRefs ==
    \/ \E m \in RefMsgs : Recv(m)
    \/ Split
    \/ Trace
    \/ Finish
    \/ Return

SpecRefs == Init /\ [][NextRefs]_vars

\* the engine with writes to the inodes in progress
NextCap ==
    \/ \E m \in CapMsgs : Recv(m)
    \/ Split
    \/ Trace
    \/ Finish
    \/ Return
    \/ \E i \in Writers : StartWrite(i)
    \/ \E i \in Writers : DirtyPage(i)
    \/ \E i \in Writers : FinishWrite(i)
    \/ \E i \in Writers : Writeback(i)

SpecCap == Init /\ [][NextCap]_vars

-----------------------------------------------------------------------------
(* Properties of the realms and their contexts *)

\* the handler is not in the middle of a message: it has returned, or the
\* kernel has stopped
AtRest == pc \in {"idle", "done", "oops"}

\* the handler has returned from the message, or waits for the next
Returned == pc \in {"idle", "done"}

\* realm x has a parent that is in the index
HasParent(x) == realms[x].parent # NULL /\ realms[x].parent \in DOMAIN realms

ContextSeqCurrent(x) ==
    LET r == realms[x]
    IN  r.cached_context.valid =>
          /\ r.cached_context.seq >= r.seq
          /\ (HasParent(x) /\ realms[r.parent].cached_context.valid)
                => r.cached_context.seq >= realms[r.parent].cached_context.seq

\* C1: whenever the handler has returned from a message, every realm with a
\* cached context has cached_context.seq >= its seq and, if it has a parent,
\* >= the seq of the parent's cached context
C1_ContextSeqCurrent == Returned => \A x \in DOMAIN realms : ContextSeqCurrent(x)

\* the maximum of a non-empty set of numbers
Max(K) == CHOOSE k \in K : \A j \in K : j <= k

\* the members of a set of snapshot ids, largest first
RECURSIVE Descending(_)
Descending(K) == IF K = {} THEN <<>> ELSE <<Max(K)>> \o Descending(K \ {Max(K)})

\* the context of realm x derived from its fields and its parent's context
ReferenceContext(x) ==
    LET r == realms[x]
        p == IF HasParent(x) THEN realms[r.parent].cached_context ELSE NullContext
    IN  [valid |-> TRUE,
         seq   |-> IF r.parent # NULL THEN Max({r.seq, p.seq}) ELSE r.seq,
         snaps |-> Descending(SeqToSet(r.snaps)
                              \cup SeqToSet(r.prior_parent_snaps)
                              \cup {s \in SeqToSet(p.snaps) : s >= r.parent_since})]

\* x and the realms reached from it by n or fewer steps to the parent
RECURSIVE SelfAndAncestors(_, _)
SelfAndAncestors(x, n) ==
    IF n = 0 \/ ~HasParent(x) THEN {x}
    ELSE {x} \cup SelfAndAncestors(realms[x].parent, n - 1)

\* the realms of the subtree of realm root
Subtree(root) ==
    {x \in DOMAIN realms : root \in SelfAndAncestors(x, Cardinality(DOMAIN realms))}

\* the trace of the current message has been applied to its last realm, whose
\* subtree was rebuilt
TraceApplied ==
    /\ pc = "finish"
    /\ cur.msg.oom = {}
    /\ cur.invalidate # 0

\* C2: after a trace is applied without allocation failure and its rebuild
\* has run, every realm of the rebuilt subtree has the cached context that
\* the reference derivation gives from its fields
C2_RebuiltContextIsReference ==
    TraceApplied =>
        \A x \in Subtree(cur.msg.trace[cur.n].ino) :
            realms[x].cached_context = ReferenceContext(x)

StrictlyDescending(l) == \A k \in 1..(Len(l) - 1) : l[k] > l[k + 1]

\* C3: the snap vector of every cached context is strictly descending: no
\* snapshot id appears twice
C3_SnapsStrictlyDescending ==
    \A x \in DOMAIN realms :
        realms[x].cached_context.valid
            => StrictlyDescending(realms[x].cached_context.snaps)

\* the parent relation leads from no realm back to itself
Acyclic ==
    \A x \in DOMAIN realms :
        HasParent(x) =>
            x \notin SelfAndAncestors(realms[x].parent, Cardinality(DOMAIN realms))

\* every parent pointer refers to a realm in the index
ParentsInIndex ==
    \A x \in DOMAIN realms :
        realms[x].parent # NULL => realms[x].parent \in DOMAIN realms

\* C7: whenever the handler is at rest, the parent relation over the realms
\* is acyclic and every parent is a realm in the index
C7_ForestAcyclic == AtRest => Acyclic /\ ParentsInIndex

-----------------------------------------------------------------------------
(* Properties of the reference counts *)

\* the final ceph_put_snap_realm of a snap message that is no split: the
\* step changes the realms by that one call
PutStep ==
    /\ pc = "finish"
    /\ cur.msg.op \in {"UPDATE", "DESTROY"}
    /\ pc' = "done"

\* the realms that releasing one reference on x destroys: x if that was its
\* last reference, then its parent likewise; n bounds the walk
RECURSIVE DestroyedBy(_, _)
DestroyedBy(x, n) ==
    IF n = 0 \/ x \notin DOMAIN realms THEN {}
    ELSE IF realms[x].nref # 1 THEN {}
    ELSE {x} \cup (IF realms[x].parent = NULL THEN {}
                   ELSE DestroyedBy(realms[x].parent, n - 1))

\* the references that releasing one on x releases on y: the one on x
\* itself, and the one each destroyed child of y held
ReleasedOn(y, x, D) ==
    (IF y = x THEN 1 ELSE 0) + Cardinality({d \in D : realms[d].parent = y})

PutPost(x) ==
    LET D == DestroyedBy(x, Cardinality(DOMAIN realms))
    IN  /\ DOMAIN realms' = DOMAIN realms \ D
        /\ \A y \in DOMAIN realms' :
              realms'[y] =
                 [realms[y] EXCEPT
                    !.nref = @ - ReleasedOn(y, x, D),
                    !.children = SelectSeq(@, LAMBDA c : c \notin D)]

\* C6: a ceph_put_snap_realm that drops a realm's nref to zero removes the
\* realm from the index and from its parent's children and releases exactly
\* one reference on the parent, destroying it in turn if that was its last;
\* a realm whose nref stays above zero remains, and nothing else changes
C6_PutReleasesParent == [][PutStep => PutPost(cur.realm)]_vars

\* a message created a realm and its parent, and its final put destroyed the
\* realm and, with the reference the realm held, the parent
C6_Witness ==
    /\ pc = "done"
    /\ cur.msg.op = "UPDATE"
    /\ Len(cur.msg.trace) = 2
    /\ cur.realm = cur.msg.trace[1].ino
    /\ DOMAIN pre.realms = {}
    /\ DOMAIN realms = {}

-----------------------------------------------------------------------------
(* Properties of the cap-snaps *)

Writing(i) == {k \in 1..Len(inodes[i].i_cap_snaps) : inodes[i].i_cap_snaps[k].writing}

\* C4: at most one cap-snap of an inode has writing set
C4_OnePendingCapSnap == \A i \in InodeIds : Cardinality(Writing(i)) <= 1

\* ceph_queue_cap_snap was called for an inode that had a pending cap-snap
\* when the message arrived, and the inode still has one
C4_Witness ==
    /\ pc = "done"
    /\ \E i \in InodeIds :
          /\ __ceph_have_pending_cap_snap(pre.inodes[i])
          /\ \E k \in 1..Len(qlog) : qlog[k].ino = i
          /\ Cardinality(Writing(i)) = 1

\* one pass of the loop of ceph_update_snap_trace that the kernel survives
TraceStep ==
    /\ pc = "trace"
    /\ cur.n < Len(cur.msg.trace)
    /\ pc' # "oops"

\* the calls of ceph_queue_cap_snap the pass over the encoded realm ri is to
\* make, from the state before the pass
QueuedFor(ri) ==
    IF ri.ino \in DOMAIN realms /\ ri.seq > realms[ri.ino].seq /\ ~cur.deletion
    THEN [k \in 1..Len(realms[ri.ino].inodes_with_caps) |->
            [ino |-> realms[ri.ino].inodes_with_caps[k],
             ctx |-> realms[ri.ino].cached_context,
             at  |-> cur.n + 1]]
    ELSE <<>>

\* C5: the pass over an encoded realm that is newer than the realm, in a
\* message that is no deletion, queues a cap-snap on every inode of the
\* realm's inodes_with_caps under the context the realm had cached before
\* the pass; any other pass queues none
C5_QueueUnderOldContext ==
    [][TraceStep => qlog' = qlog \o QueuedFor(cur.msg.trace[cur.n + 1])]_vars

\* a trace raised the seq of a realm that has an inode, and the cap-snap was
\* queued under a context older than the one the realm has now
C5_Witness ==
    /\ pc = "finish"
    /\ cur.msg.op = "UPDATE"
    /\ \E k \in 1..Len(qlog) :
          LET x == inodes[qlog[k].ino].i_snap_realm
          IN  /\ qlog[k].at >= 1
              /\ x \in DOMAIN realms
              /\ realms[x].seq > qlog[k].ctx.seq

-----------------------------------------------------------------------------
(* Properties of the split *)

\* the message being handled is a split whose first loop has run
InSplit == cur.msg.op = "SPLIT" /\ pc \in {"trace", "finish", "done"}

Listed == SeqToSet(cur.msg.split_inos)

\* the realm inode i belonged to when the message arrived
OldRealm(i) == pre.inodes[i].i_snap_realm

\* the first loop leaves the listed inode i in its realm, which was created
\* after the new realm
Skipped(i) ==
    /\ i \in Listed
    /\ OldRealm(i) # NULL
    /\ pre.realms[OldRealm(i)].created > cur.msg.trace[1].created

\* the first loop takes the listed inode i out of its realm, to move it
Moved(i) ==
    /\ i \in Listed
    /\ OldRealm(i) # NULL
    /\ pre.realms[OldRealm(i)].created <= cur.msg.trace[1].created

\* the calls of ceph_queue_cap_snap for inode i in the current message
QueuedOn(i) == {k \in 1..Len(qlog) : qlog[k].ino = i}

OnSomeList(i) ==
    \E x \in DOMAIN realms : i \in SeqToSet(realms[x].inodes_with_caps)

\* C8: in a split, each inode the first loop moves has its cap-snap queued
\* exactly once, by that loop and under the cached context of its old realm;
\* while the trace is applied it is on no realm's inodes_with_caps; once the
\* handler is done it is attached to the new realm
C8_SplitQueuesOnceThenAttaches ==
    InSplit =>
      \A i \in InodeIds :
        Moved(i) =>
          /\ \E k \in QueuedOn(i) :
                /\ QueuedOn(i) = {k}
                /\ qlog[k].at = 0
                /\ qlog[k].ctx = pre.realms[OldRealm(i)].cached_context
          /\ pc \in {"trace", "finish"} => ~OnSomeList(i)
          /\ pc = "done" =>
                /\ inodes[i].i_snap_realm = cur.realm
                /\ i \in SeqToSet(realms[cur.realm].inodes_with_caps)

\* a split moved an inode out of another realm, and the trace raised the seq
\* of that realm without queueing on the inode again
C8_Witness ==
    /\ InSplit
    /\ pc = "done"
    /\ \E i \in InodeIds :
          /\ Moved(i)
          /\ OldRealm(i) # cur.realm
          /\ OldRealm(i) \in DOMAIN realms
          /\ realms[OldRealm(i)].seq > pre.realms[OldRealm(i)].seq
          /\ inodes[i].i_snap_realm = cur.realm

\* C9: after a split is processed, an inode the first loop skipped belongs to
\* the realm it belonged to before, is on that realm's inodes_with_caps as
\* before and on no other, and the split queued no cap-snap on it
C9_SkippedInodeStays ==
    (InSplit /\ pc = "done") =>
      \A i \in InodeIds :
        Skipped(i) =>
          /\ inodes[i].i_snap_realm = OldRealm(i)
          /\ \A x \in DOMAIN realms :
                i \in SeqToSet(realms[x].inodes_with_caps) <=> x = OldRealm(i)
          /\ \A k \in QueuedOn(i) : qlog[k].at # 0

-----------------------------------------------------------------------------
(* Properties of the error paths *)

\* C10: when a message is dropped because its trace does not decode, the
\* realms, the inodes and the snap flush list are as they were when the
\* message arrived
C10_BadMessageChangesNothing == pc = "bad" => Snapshot = pre

-----------------------------------------------------------------------------
(* Properties of the references a trace takes *)

\* ceph_update_snap_trace has returned its first realm to a caller that is
\* no split
TraceReturned == pc = "finish" /\ cur.msg.op \in {"UPDATE", "DESTROY", "GRANT"}

\* the reference count of realm x in the realms R, 0 if it is not there
NrefOf(R, x) == IF x \in DOMAIN R THEN R[x].nref ELSE 0

\* the realms of R whose parent is x: each holds a reference on x
ChildrenOf(R, x) == {y \in DOMAIN R : R[y].parent = x}

RealmsSeen == DOMAIN realms \cup DOMAIN pre.realms

\* C11: when ceph_update_snap_trace returns, the realm returned is the one
\* the first encoded realm names, it is in the index, its reference count is
\* one more than before on behalf of the caller, and every realm's count
\* has otherwise changed as the number of its children has
C11_TraceReturnsFirstWithOneRef ==
    TraceReturned =>
        /\ cur.realm = cur.msg.trace[1].ino
        /\ cur.realm \in DOMAIN realms
        /\ \A x \in RealmsSeen :
              NrefOf(realms, x) - NrefOf(pre.realms, x) =
                  (IF x = cur.realm THEN 1 ELSE 0)
                  + Cardinality(ChildrenOf(realms, x))
                  - Cardinality(ChildrenOf(pre.realms, x))

\* a trace of two realms returned its first, which was in the index before,
\* and changed the reference count of another realm by moving a parent link
C11_Witness ==
    /\ TraceReturned
    /\ Len(cur.msg.trace) = 2
    /\ cur.realm \in DOMAIN pre.realms
    /\ NrefOf(realms, cur.realm) = NrefOf(pre.realms, cur.realm) + 1
    /\ \E x \in RealmsSeen \ {cur.realm} :
          NrefOf(realms, x) # NrefOf(pre.realms, x)

(***************************************************************************)
(* Locks.  A thread is the list of lock operations it has yet to do, in    *)
(* the order its function does them, and the locks it holds, in the order  *)
(* it took them.                                                           *)
(***************************************************************************)
Lock(name, of) == [name |-> name, of |-> of]
mdsc_mutex == Lock("mdsc.mutex", 0)
snap_rwsem == Lock("snap_rwsem", 0)
snap_flush_lock == Lock("snap_flush_lock", 0)
i_lock(i) == Lock("i_lock", i)

Acq(l) == [op |-> "acq", lock |-> l]
Rel(l) == [op |-> "rel", lock |-> l]

\* __ceph_finish_cap_snap puts the inode on the flush list under snap_flush_lock
finish_cap_snap_locks == <<Acq(snap_flush_lock), Rel(snap_flush_lock)>>

\* ceph_queue_cap_snap works under the inode's spinlock; with no write in
\* progress (fin) it finishes the cap-snap before it lets the spinlock go
queue_cap_snap_locks(i, fin) ==
    <<Acq(i_lock(i))>> \o (IF fin THEN finish_cap_snap_locks ELSE <<>>) \o <<Rel(i_lock(i))>>

\* a flush loop that keeps snap_flush_lock while it takes the inode's spinlock
RECURSIVE FlushHoldingList(_)
FlushHoldingList(is) ==
    IF is = <<>> THEN <<>>
    ELSE <<Acq(i_lock(is[1])), Rel(i_lock(is[1]))>> \o FlushHoldingList(Tail(is))

FlushHolding(is) == <<Acq(snap_flush_lock)>> \o FlushHoldingList(is) \o <<Rel(snap_flush_lock)>>

\* the loop of flush_snaps: for each listed inode drop snap_flush_lock, flush
\* under the inode's spinlock, take snap_flush_lock again
RECURSIVE FlushEach(_)
FlushEach(is) ==
    IF is = <<>> THEN <<>>
    ELSE <<Rel(snap_flush_lock), Acq(i_lock(is[1])), Rel(i_lock(is[1])), Acq(snap_flush_lock)>>
         \o FlushEach(Tail(is))

flush_snaps_locks(is) == <<Acq(snap_flush_lock)>> \o FlushEach(is) \o <<Rel(snap_flush_lock)>>

\* the first loop of a split: look at the inode under its spinlock, then
\* queue its cap-snap
SplitLoopLocks(i, fin) == <<Acq(i_lock(i)), Rel(i_lock(i))>> \o queue_cap_snap_locks(i, fin)

\* the second loop of a split: attach the inode under its spinlock
AttachLoopLocks(i) == <<Acq(i_lock(i)), Rel(i_lock(i))>>

\* ceph_handle_snap: find the session under mdsc.mutex and take snap_rwsem
\* for write before letting the mutex go; work; release; flush
handle_snap_locks(split, i, fin, listed) ==
    <<Acq(mdsc_mutex), Acq(snap_rwsem), Rel(mdsc_mutex)>>
    \o (IF split THEN SplitLoopLocks(i, fin) ELSE <<>>)
    \o queue_cap_snap_locks(i, fin)
    \o (IF split THEN AttachLoopLocks(i) ELSE <<>>)
    \o <<Rel(snap_rwsem)>>
    \o flush_snaps_locks(listed)

\* ceph_handle_snap for a peer without a session, and for a damaged message
NoSessionLocks == <<Acq(mdsc_mutex), Rel(mdsc_mutex)>>
BadMessageLocks == <<Acq(mdsc_mutex), Acq(snap_rwsem), Rel(mdsc_mutex), Rel(snap_rwsem)>>

\* the end of a write finishes the cap-snap with the inode's spinlock held
WriteDoneLocks(i) == <<Acq(i_lock(i))>> \o finish_cap_snap_locks \o <<Rel(i_lock(i))>>

\* the inodes flush_snaps may find on the flush list
FlushLists == {<<>>, <<11>>, <<12>>, <<11, 12>>}

LockRuns ==
    {handle_snap_locks(split, i, fin, listed) :
        split \in BOOLEAN, i \in InodeIds, fin \in BOOLEAN, listed \in FlushLists}
    \cup {NoSessionLocks, BadMessageLocks}
    \cup {WriteDoneLocks(i) : i \in InodeIds}

HeldBy(t) == SeqToSet(lk[t].held)
NextOp(t) == lk[t].ops[1]
Busy(t) == lk[t].ops # <<>>
Taken(l) == \E u \in Threads : l \in HeldBy(u)

\* a thread enters one of the functions
Enter(t, run) ==
    /\ ~Busy(t)
    /\ lk' = [lk EXCEPT ![t].ops = run]
    /\ UNCHANGED <<engine, net, two, rados>>

\* spin_lock, mutex_lock, down_write
Acquire(t) ==
    /\ Busy(t)
    /\ NextOp(t).op = "acq"
    /\ ~Taken(NextOp(t).lock)
    /\ lk' = [lk EXCEPT ![t] = [ops |-> Tail(@.ops), held |-> Append(@.held, NextOp(t).lock)]]
    /\ UNCHANGED <<engine, net, two, rados>>

\* spin_unlock, mutex_unlock, up_write
Release(t) ==
    /\ Busy(t)
    /\ NextOp(t).op = "rel"
    /\ lk' = [lk EXCEPT ![t] = [ops |-> Tail(@.ops), held |-> ListDel(@.held, NextOp(t).lock)]]
    /\ UNCHANGED <<engine, net, two, rados>>

NextLock ==
    \/ \E t \in Threads, run \in LockRuns : Enter(t, run)
    \/ \E t \in Threads : Acquire(t)
    \/ \E t \in Threads : Release(t)

SpecLock == Init /\ [][NextLock]_vars

\* the place the specification gives each lock in the order
SpecRank(l) ==
    CASE l.name = "mdsc.mutex" -> 1
      [] l.name = "snap_rwsem" -> 2
      [] l.name = "snap_flush_lock" -> 3
      [] l.name = "i_lock" -> 4
\* every thread took the locks it holds in that order
InSpecOrder ==
    \A t \in Threads : \A j, k \in DOMAIN lk[t].held :
        j < k => SpecRank(lk[t].held[j]) < SpecRank(lk[t].held[k])

\* the place each lock has in the order the functions take them
CodeRank(l) ==
    CASE l.name = "mdsc.mutex" -> 1
      [] l.name = "snap_rwsem" -> 2
      [] l.name = "i_lock" -> 3
      [] l.name = "snap_flush_lock" -> 4

\* every thread took the locks it holds in that order
InCodeOrder ==
    \A t \in Threads : \A j, k \in DOMAIN lk[t].held :
        j < k => CodeRank(lk[t].held[j]) < CodeRank(lk[t].held[k])

Waiting(t) == Busy(t) /\ NextOp(t).op = "acq" /\ Taken(NextOp(t).lock)

\* a set of threads each waiting for a lock another of them holds
WaitCycle(W) == \A t \in W : Waiting(t) /\ \E u \in W : NextOp(t).lock \in HeldBy(u)
NoDeadlock == \A W \in SUBSET Threads : W # {} => ~WaitCycle(W)

\* C12 as stated: every thread takes the locks in the order mdsc.mutex,
\* snap_rwsem, snap_flush_lock, inode spinlock (never snap_flush_lock with an
\* inode spinlock held), and no set of threads waits on itself.
C12_SpecLockOrder == InSpecOrder /\ NoDeadlock

\* C12 amended: every thread takes the locks in the order mdsc.mutex,
\* snap_rwsem, inode spinlock, snap_flush_lock (never an inode spinlock with
\* snap_flush_lock held), and no set of threads waits on itself.
C12_LockOrder == InCodeOrder /\ NoDeadlock

\* one thread holds an inode spinlock and snap_flush_lock inside snap_rwsem,
\* while the other waits for one of them
C12_Witness ==
    \E t, u \in Threads :
        /\ {snap_rwsem, snap_flush_lock} \subseteq HeldBy(t)
        /\ \E i \in InodeIds : i_lock(i) \in HeldBy(t)
        /\ Waiting(u)
        /\ NextOp(u).lock \in HeldBy(t)

(***************************************************************************)
(* The messenger: one lossless connection, local end and peer.             *)
(***************************************************************************)
con == net.con
SetCon(c) == [net EXCEPT !.con = c]
NetStep(c) == net' = SetCon(c) /\ UNCHANGED <<engine, lk, two, rados>>

NewMsg(id, seq) == [id |-> id, seq |-> seq]
AckTag(seq) == [tag |-> "ACK", seq |-> seq]
MsgTag(seq) == [tag |-> "MSG", seq |-> seq]

RECURSIVE Above(_, _)
\* the messages of a list with seq above s, in list order
Above(l, s) ==
    IF l = <<>> THEN <<>>
    ELSE (IF l[1].seq > s THEN <<l[1]>> ELSE <<>>) \o Above(Tail(l), s)

\* out_queue_lock is never seen held
LockIgnored(c) == c = c

\* out_queue_lock is free for caller c to take
LockFree(c) == con.lock = 0

\* ceph_con_send, first half: take out_queue_lock, msg.seq = ++con.out_seq
SendBegin(c) ==
    /\ con.pend[c] = NoPend
    /\ con.ncalls < MaxSend
    /\ LockFree(c)
    /\ NetStep([con EXCEPT !.lock = c,
                           !.out_seq = @ + 1,
                           !.ncalls = @ + 1,
                           !.pend[c] = NewMsg(con.ncalls + 1, con.out_seq + 1)])

\* ceph_con_send, second half: append to out_queue, release out_queue_lock
SendEnd(c) ==
    /\ con.pend[c] # NoPend
    /\ NetStep([con EXCEPT !.lock = 0,
                           !.out_queue = Append(@, con.pend[c]),
                           !.pend[c] = NoPend])

\* the peer's answer to a connect: READY with its last ack if it knows the
\* session or the session is new, RESETSESSION if it has no memory of it
Accept ==
    /\ con.state = "CONNECTING"
    /\ con.reply = NoReply
    /\ IF con.peer.session \/ con.connect_seq = 0
       THEN NetStep([con EXCEPT !.reply = [code |-> "READY", ack |-> con.peer.in_seq_acked],
                                !.peer.session = TRUE])
       ELSE NetStep([con EXCEPT !.reply = [code |-> "RESETSESSION", ack |-> 0]])

\* the in-flight messages are forgotten at a reconnect
ForgetSent(c, ack) == [c EXCEPT !.out_sent = <<>>]

\* the in-flight messages the peer has not acknowledged go back to the head
\* of out_queue with the numbers they have
Requeue(c, ack) ==
    [c EXCEPT !.out_sent = <<>>,
              !.out_queue = Above(c.out_sent, ack) \o @]

\* a reset that keeps counting where the old session stopped
ResetKeepingSeq(c) ==
    [c EXCEPT !.out_sent = <<>>,
              !.out_queue = <<>>,
              !.in_seq = 0,
              !.connect_seq = 0,
              !.peer_resets = @ + 1]

\* the session is forgotten: queued and in-flight messages are released, the
\* sequence numbers start again, the owner is told
reset_connection(c) ==
    [c EXCEPT !.out_sent = <<>>,
              !.out_queue = <<>>,
              !.out_seq = 0,
              !.in_seq = 0,
              !.connect_seq = 0,
              !.peer_resets = @ + 1]

\* the local end reads the connect reply
process_connect ==
    /\ con.reply # NoReply
    /\ con.lock = 0
    /\ IF con.reply.code = "READY"
       THEN NetStep([Requeue(con, con.reply.ack) EXCEPT
                        !.state = "OPEN", !.connect_seq = @ + 1, !.reply = NoReply])
       ELSE NetStep([reset_connection(con) EXCEPT !.reply = NoReply, !.reset_at = con.ncalls])

\* the worker moves the head of out_queue to out_sent and writes it
try_write ==
    /\ con.state = "OPEN"
    /\ con.out_queue # <<>>
    /\ con.lock = 0
    /\ NetStep([con EXCEPT !.out_queue = Tail(@),
                           !.out_sent = Append(@, con.out_queue[1]),
                           !.to_peer = Append(@, con.out_queue[1])])

\* a message numbered seq was seen before
Duplicate(in_seq, seq) == seq <= in_seq

\* in_seq stays behind the message passed to dispatch
NoAdvance(in_seq, seq) == in_seq

\* the number of the last message received once a message numbered seq was
\* passed to dispatch
Advance(in_seq, seq) == seq

\* the peer reads a message: drop a duplicate, else note its number and
\* pass it to dispatch
PeerRead ==
    /\ con.to_peer # <<>>
    /\ IF Duplicate(con.peer.in_seq, con.to_peer[1].seq)
       THEN NetStep([con EXCEPT !.to_peer = Tail(@), !.dropped = @ + 1])
       ELSE NetStep([con EXCEPT !.to_peer = Tail(@),
                                !.peer.in_seq = Advance(@, con.to_peer[1].seq),
                                !.dispatched = Append(@, con.to_peer[1])])

\* the peer acknowledges what it has received
PeerAck ==
    /\ con.state = "OPEN"
    /\ con.peer.in_seq > con.peer.in_seq_acked
    /\ NetStep([con EXCEPT !.peer.in_seq_acked = con.peer.in_seq,
                           !.to_local = Append(@, AckTag(con.peer.in_seq))])

\* the peer sends a message of its own
PeerSend ==
    /\ con.state = "OPEN"
    /\ con.peer.out_seq < MaxPeerSend
    /\ NetStep([con EXCEPT !.peer.out_seq = @ + 1,
                           !.to_local = Append(@, MsgTag(con.peer.out_seq + 1))])

\* the local end reads: an ACK releases the in-flight messages up to it, a
\* message is dropped as a duplicate or noted and passed to dispatch
try_read ==
    /\ con.to_local # <<>>
    /\ con.lock = 0
    /\ IF con.to_local[1].tag = "ACK"
       THEN NetStep([con EXCEPT !.to_local = Tail(@),
                                !.out_sent = Above(@, con.to_local[1].seq)])
       ELSE IF Duplicate(con.in_seq, con.to_local[1].seq)
       THEN NetStep([con EXCEPT !.to_local = Tail(@)])
       ELSE NetStep([con EXCEPT !.to_local = Tail(@),
                                !.in_seq = Advance(@, con.to_local[1].seq),
                                !.received = Append(@, con.to_local[1].seq)])

\* the socket breaks: what was written and not read is lost; a lossless
\* connection connects again
Fault ==
    /\ con.state = "OPEN"
    /\ con.faults < MaxFaults
    /\ NetStep([con EXCEPT !.state = "CONNECTING", !.reply = NoReply,
                           !.to_peer = <<>>, !.to_local = <<>>,
                           !.faults = @ + 1])

\* the peer of an established session restarts and loses all it knew; the
\* socket breaks with it
PeerRestart ==
    /\ con.restarts < MaxRestarts
    /\ con.connect_seq > 0
    /\ NetStep([con EXCEPT !.state = "CONNECTING", !.reply = NoReply,
                           !.to_peer = <<>>, !.to_local = <<>>,
                           !.peer = NewPeer,
                           !.restarts = @ + 1])

NextNet ==
    \/ \E c \in Callers : SendBegin(c)
    \/ \E c \in Callers : SendEnd(c)
    \/ Accept
    \/ process_connect
    \/ try_write
    \/ PeerRead
    \/ PeerAck
    \/ PeerSend
    \/ try_read
    \/ Fault
    \/ PeerRestart

SpecNet == Init /\ [][NextNet]_vars

\* the same, with every handshake, write, read and ack taken in the end
\* (each fault is recovered from); calls, faults and restarts come as they may
SpecNetLive ==
    /\ SpecNet
    /\ WF_vars(\E c \in Callers : SendEnd(c))
    /\ WF_vars(Accept)
    /\ WF_vars(process_connect)
    /\ WF_vars(try_write)
    /\ WF_vars(PeerRead)
    /\ WF_vars(PeerAck)
    /\ WF_vars(try_read)

\* the state the step under way leads to
conNext == net'.con

\* what the callers have numbered and not yet appended
Pending == {con.pend[c] : c \in Callers} \ {NoPend}
\* the messages the local end holds
Held == SeqToSet(con.out_queue) \cup SeqToSet(con.out_sent) \cup Pending

\* the peer has dispatched the first calls, each once, in call order, under
\* the number send gave it, and the local end still holds every other call
DispatchedInCallOrder ==
    /\ \A k \in DOMAIN con.dispatched : con.dispatched[k] = NewMsg(k, k)
    /\ \A k \in (Len(con.dispatched) + 1)..con.ncalls : NewMsg(k, k) \in Held

AllDispatched == Len(con.dispatched) = con.ncalls

\* C13: on a lossless connection whose faults are all recovered from (and
\* whose peer keeps its session), the messages passed to dispatch on the peer
\* are the send calls, each exactly once and in call order: what the peer has
\* not acknowledged is sent again under its original number, what it had
\* dispatched already it drops, and in the end every call is dispatched.
C13_DispatchEqualsSends ==
    /\ [](con.restarts = 0 => DispatchedInCallOrder)
    /\ <>[](con.restarts = 0 => AllDispatched)

\* after a fault a message was sent again and dropped by the peer as a
\* duplicate, and all calls are dispatched and acknowledged
C13_Witness ==
    /\ con.restarts = 0
    /\ con.faults > 0
    /\ con.dropped > 0
    /\ con.ncalls = MaxSend
    /\ AllDispatched
    /\ con.out_sent = <<>>

Increasing(l) == \A j, k \in DOMAIN l : j < k => l[j] < l[k]
Seqs(l) == [k \in DOMAIN l |-> l[k].seq]
LastOr0(l) == IF l = <<>> THEN 0 ELSE l[Len(l)]

\* the peer takes one message off the socket
PeerReadStep ==
    /\ con.to_peer # <<>>
    /\ conNext.to_peer = Tail(con.to_peer)
    /\ conNext.faults = con.faults
    /\ conNext.restarts = con.restarts

\* C14: within one session (no reset) the numbers of the messages passed
\* to dispatch are strictly increasing at either end and in_seq is the last of
\* them; a message with seq <= in_seq is dropped without a dispatch, any other
\* sets in_seq to its seq and is dispatched; in_seq never decreases.
C14_DispatchedSeqIncreasing ==
    /\ [](con.restarts = 0 =>
            /\ Increasing(Seqs(con.dispatched))
            /\ Increasing(con.received)
            /\ con.peer.in_seq = LastOr0(Seqs(con.dispatched))
            /\ con.in_seq = LastOr0(con.received))
    /\ [][conNext.restarts = 0 =>
            /\ conNext.peer.in_seq >= con.peer.in_seq
            /\ conNext.in_seq >= con.in_seq
            /\ PeerReadStep =>
                 IF con.to_peer[1].seq <= con.peer.in_seq
                 THEN conNext.dispatched = con.dispatched
                      /\ conNext.peer.in_seq = con.peer.in_seq
                 ELSE conNext.dispatched = Append(con.dispatched, con.to_peer[1])
                      /\ conNext.peer.in_seq = con.to_peer[1].seq]_vars

\* the peer has dropped a message sent again after a fault, and dispatched
\* a later one after it
C14_Witness ==
    /\ con.restarts = 0
    /\ con.dropped > 0
    /\ Len(con.dispatched) = 2
    /\ con.peer.in_seq = 2
    /\ con.received # <<>>

ResetStep ==
    /\ con.reply.code = "RESETSESSION"
    /\ conNext.reply = NoReply
    /\ conNext.restarts = con.restarts

race == net.race
RaceStep(r) == net' = [net EXCEPT !.race = r] /\ UNCHANGED <<engine, lk, two, rados>>

\* endpoint e has a connection with the other, made by either of them
Connected(e) == race.att[e] = "OPEN" \/ race.acc[e]

\* endpoint e starts to connect to the other: it has no connection with it
Initiate(e) ==
    /\ race.att[e] = "NEW"
    /\ ~Connected(e)
    /\ race.global_seq[e] < MaxAttempts
    /\ RaceStep([race EXCEPT !.att[e] = "CONNECTING",
                             !.connect[e] = TRUE,
                             !.global_seq[e] = @ + 1])

\* every connect is answered READY
ReplyReady(o, e) == "READY"

\* endpoint e has an attempt of its own under way or open
Attempting(e) == race.att[e] \in {"CONNECTING", "OPEN"}

\* the lower address of a racing pair answers WAIT
ReplyTo(o, e) == IF Attempting(o) /\ o < e THEN "WAIT" ELSE "READY"

\* endpoint o answers the connect of e: with an attempt of its own the lower
\* address of the two answers WAIT; else READY, and the connection is
\* accepted
HandleConnect(o) ==
    /\ race.connect[Other(o)]
    /\ RaceStep([race EXCEPT !.connect[Other(o)] = FALSE,
                             !.reply[Other(o)] = ReplyTo(o, Other(o)),
                             !.acc[o] = (ReplyTo(o, Other(o)) = "READY"),
                             !.raced[o] = Attempting(o)])

\* endpoint e reads the reply: READY opens the connection, WAIT leaves it
\* waiting for the other to connect to it
HandleReply(e) ==
    /\ race.reply[e] # "NONE"
    /\ RaceStep([race EXCEPT !.reply[e] = "NONE",
                             !.att[e] = IF race.reply[e] = "READY" THEN "OPEN" ELSE "WAIT"])

\* the connection the pair has is closed at both ends
CloseBoth ==
    /\ \E e \in Ends : race.att[e] = "OPEN"
    /\ \A e \in Ends : ~race.connect[e] /\ race.reply[e] = "NONE"
    /\ RaceStep([race EXCEPT !.att = [e \in Ends |-> "NEW"],
                             !.acc = [e \in Ends |-> FALSE],
                             !.raced = [e \in Ends |-> FALSE]])

NextRace ==
    \/ \E e \in Ends : Initiate(e)
    \/ \E e \in Ends : HandleConnect(e)
    \/ \E e \in Ends : HandleReply(e)
    \/ CloseBoth

SpecRace == Init /\ [][NextRace]_vars

Lower == CHOOSE e \in Ends : \A o \in Ends : e <= o
Higher == Other(Lower)

\* nothing is on its way between the two
Settled == \A e \in Ends : ~race.connect[e] /\ race.reply[e] = "NONE"
\* both initiated at the same time: each answered the other with an attempt
\* of its own
Raced == \A e \in Ends : race.raced[e]
\* the connection endpoint e initiated is open at e and accepted by the other
OpenFrom(e) == race.att[e] = "OPEN" /\ race.acc[Other(e)]
\* the connection endpoint e initiated exists at one end at least
LiveFrom(e) == race.att[e] = "OPEN" \/ race.acc[Other(e)]

NeverTwo == ~(LiveFrom(Lower) /\ LiveFrom(Higher))
WaitFromLower == race.reply[Lower] # "WAIT" /\ race.att[Lower] # "WAIT"

work == net.work
WorkStep(w) == net' = [net EXCEPT !.work = w] /\ UNCHANGED <<engine, lk, two, rados>>

\* test_and_set_bit(BUSY) is never seen to fail
BusyNeverSeen(state) == "BUSY" \in {}

\* test_and_set_bit(BUSY) finds the bit set
BusySeen(state) == "BUSY" \in state

\* work arrives (send, keepalive, socket event): set its bit and QUEUED; put
\* the connection on the work queue unless a worker is BUSY with it
Submit(b) ==
    /\ work.nwork < MaxWork
    /\ WorkStep([work EXCEPT !.state = @ \cup {b, "QUEUED"},
                             !.queued = @ \/ ~BusySeen(work.state),
                             !.nwork = @ + 1])

\* a worker takes the connection off the work queue
Take(w) ==
    /\ work.queued
    /\ work.at[w] = "idle"
    /\ WorkStep([work EXCEPT !.queued = FALSE, !.at[w] = "more"])

\* con_work: leave if BUSY is set; else set BUSY, clear QUEUED and proceed
Own(w) ==
    /\ work.at[w] = "more"
    /\ IF BusySeen(work.state)
       THEN WorkStep([work EXCEPT !.at[w] = "idle"])
       ELSE WorkStep([work EXCEPT !.state = (@ \cup {"BUSY"}) \ {"QUEUED"},
                                  !.at[w] = "io"])

\* the owner opens, reads or writes for one of the bits
Drain(w, b) ==
    /\ work.at[w] = "io"
    /\ b \in work.state
    /\ WorkStep([work EXCEPT !.state = @ \ {b}])

\* the owner has no more to do and clears BUSY
Done(w) ==
    /\ work.at[w] = "io"
    /\ work.state \cap WorkBits = {}
    /\ WorkStep([work EXCEPT !.state = @ \ {"BUSY"}, !.at[w] = "done"])

\* work that arrived meanwhile set QUEUED: the worker loops
Again(w) ==
    /\ work.at[w] = "done"
    /\ WorkStep([work EXCEPT !.at[w] = IF "QUEUED" \in work.state THEN "more" ELSE "idle"])

NextWork ==
    \/ \E b \in WorkBits : Submit(b)
    \/ \E w \in Workers : Take(w)
    \/ \E w \in Workers : Own(w)
    \/ \E w \in Workers, b \in WorkBits : Drain(w, b)
    \/ \E w \in Workers : Done(w)
    \/ \E w \in Workers : Again(w)

SpecWork == Init /\ [][NextWork]_vars

workNext == net'.work
\* the workers that are opening, reading or writing the connection
Owners == {w \in Workers : work.at[w] = "io"}
\* work arrives
SubmitStep == workNext.nwork = work.nwork + 1
\* worker w goes on to open, read or write
OwnStep(w) == work.at[w] # "io" /\ workNext.at[w] = "io"

\* C18: at most one worker at a time is opening, reading or writing the
\* connection, and BUSY is set while it is; a worker goes on only in a step
\* that finds BUSY clear, sets it and clears QUEUED; work that arrives while
\* BUSY is set sets QUEUED and puts nothing on the work queue, and the owner
\* then loops; no work is left with nobody to do it.
C18_SingleWorker ==
    /\ [](/\ Cardinality(Owners) <= 1
          /\ Owners # {} => "BUSY" \in work.state
          /\ (work.state \cap WorkBits # {} =>
                work.queued \/ \E w \in Workers : work.at[w] # "idle"))
    /\ [][/\ \A w \in Workers : OwnStep(w) =>
                /\ "BUSY" \notin work.state
                /\ "BUSY" \in workNext.state
                /\ "QUEUED" \notin workNext.state
          /\ SubmitStep /\ "BUSY" \in work.state =>
                /\ "QUEUED" \in workNext.state
                /\ workNext.queued = work.queued
          /\ \A w \in Workers :
                work.at[w] = "done" /\ "QUEUED" \in work.state /\ workNext.at[w] # "done"
                    => workNext.at[w] = "more"]_vars

\* one worker owns the connection, work has arrived while it was BUSY, and
\* the other worker has taken the connection off the work queue
C18_Witness ==
    \E w, v \in Workers :
        /\ work.at[w] = "io"
        /\ work.at[v] = "more"
        /\ {"BUSY", "QUEUED"} \subseteq work.state


(***************************************************************************)
(* The calls of __ceph_finish_cap_snap.                                    *)
(***************************************************************************)
\* the cap-snaps the inodes have
CapSnaps == UNION {SeqToSet(inodes[i].i_cap_snaps) : i \in InodeIds}

\* C20 as stated: every cap-snap that __ceph_finish_cap_snap was called
\* with, from ceph_queue_cap_snap or at the end of a write, has writing set.
C20_FinishedWhileWriting ==
    \A c \in CapSnaps : c.finish # "none" => c.writing

\* C20 amended: every cap-snap that __ceph_finish_cap_snap was called with,
\* from ceph_queue_cap_snap or at the end of a write, has writing clear: the
\* BUG_ON at its head never fires, and a cap-snap is writing exactly until
\* it is finished.
C20_FinishedNotWriting ==
    \A c \in CapSnaps :
        /\ c.finish # "BUG"
        /\ c.finish = "done" <=> ~c.writing

\* an inode has a cap-snap finished at the end of a write and, behind it, one
\* finished by ceph_queue_cap_snap at once
C20_Witness ==
    \E i \in InodeIds :
        /\ Len(inodes[i].i_cap_snaps) = 2
        /\ inodes[i].i_cap_snaps[1].dirty > 0
        /\ \A k \in 1..2 : inodes[i].i_cap_snaps[k].finish = "done"


(***************************************************************************)
(* Two clients of one MDS.  Both are sent every trace, each with a snap     *)
(* notification or with the grant of a cap, as the caps it holds have it.  *)
(***************************************************************************)
\* a client's state as the operators thread it, with no allocation failing
Thread(cl) ==
    [realms |-> cl.realms, inodes |-> cl.inodes, flush |-> cl.flush,
     qlog |-> <<>>, oops |-> cl.oops, nalloc |-> 0, oom |-> {}, capoom |-> FALSE,
     dupoom |-> FALSE, at |-> 1, blog |-> <<>>]

Settle(S) ==
    [realms |-> S.realms, inodes |-> S.inodes, flush |-> S.flush, oops |-> S.oops]

\* ceph_update_snap_trace: the loop over the encoded realms of a trace; gives
\* the state and the first realm of the trace
RECURSIVE ceph_update_snap_trace(_, _, _)
NextPass(R, c, rest) ==
    ceph_update_snap_trace(
        R.S, [c EXCEPT !.first = R.first, !.invalidate = R.invalidate], rest)

LastPass(R) == [S |-> R.S, realm |-> R.first]

ceph_update_snap_trace(S, c, trace) ==
    IF Len(trace) = 1
    THEN LastPass(update_snap_trace_entry(S, c, trace[1], TRUE))
    ELSE NextPass(update_snap_trace_entry(S, c, trace[1], FALSE), c, Tail(trace))

\* what follows the trace: a snap notification (inode 0) puts the realm and
\* flushes; a cap grant adds the cap on the inode first
AfterTrace(R, inode) ==
    IF inode = 0
    THEN flush_snaps(ceph_put_snap_realm(R.S, R.realm))
    ELSE flush_snaps(ceph_put_snap_realm(ceph_add_cap(R.S, inode, R.realm), R.realm))

\* the client handles a message that carries the trace
Deliver(cl, trace, inode) ==
    Settle(AfterTrace(ceph_update_snap_trace(Thread(cl), Idle, trace), inode))

\* the MDS never sends a realm at a lower seq than it has sent it before
InSeqOrder(trace) == \A k \in DOMAIN trace : trace[k].seq >= two.seen[trace[k].ino]

SeenAfter(trace) ==
    [x \in RealmInos |->
        Max({two.seen[x]} \cup {trace[k].seq : k \in {j \in DOMAIN trace : trace[j].ino = x}})]

\* the traces of an MDS: a realm and its ancestors up to a root
FullTraces == {t \in Traces : t[Len(t)].parent = 0}

\* how a trace reaches a client: 0 for a snap notification, else the inode a
\* cap is granted on
Carriers == {0, 11}

\* both clients are sent the trace
Apply(trace, ia, ib) ==
    /\ ~two.a.oops /\ ~two.b.oops
    /\ InSeqOrder(trace)
    /\ two' = [a |-> Deliver(two.a, trace, ia),
               b |-> Deliver(two.b, trace, ib),
               seen |-> SeenAfter(trace)]
    /\ UNCHANGED <<engine, lk, net, rados>>

NextTwo == \E trace \in FullTraces, ia, ib \in Carriers : Apply(trace, ia, ib)

SpecTwo == Init /\ [][NextTwo]_vars

\* C19: two clients that started empty and were sent the same traces in the
\* same order, with no allocation failing, have the same cached snap context
\* (seq and snap vector) for every realm they both have.
C19_SameContexts ==
    ~two.a.oops /\ ~two.b.oops =>
        \A x \in DOMAIN two.a.realms \cap DOMAIN two.b.realms :
            two.a.realms[x].cached_context = two.b.realms[x].cached_context

(***************************************************************************)
(* The effect of one call of ceph_queue_cap_snap on the inode.             *)
(***************************************************************************)
\* a step of the handler that calls ceph_queue_cap_snap: the first loop of a
\* split, or a pass over an encoded realm
QueueStep == pc \in {"split", "trace"} /\ pc' \notin {"oops", "bad"}

\* the calls the step makes
NewCalls == SubSeq(qlog', Len(qlog) + 1, Len(qlog'))

\* the dirty pages of a list of cap-snaps
RECURSIVE SumDirty(_)
SumDirty(l) == IF l = <<>> THEN 0 ELSE l[1].dirty + SumDirty(Tail(l))

\* the dirty pages of an inode: those of the head and of every cap-snap
DirtySum(ci) == ci.i_wrbuffer_ref_head + SumDirty(ci.i_cap_snaps)

\* the step leaves inode i with one more cap-snap, at the tail, that follows
\* snapc.seq - 1 and carries the dirty pages the head had; the head has none
AppendedOne(i, snapc) ==
    LET old == inodes[i].i_cap_snaps
        new == inodes'[i].i_cap_snaps
    IN  /\ Len(new) = Len(old) + 1
        /\ SubSeq(new, 1, Len(old)) = old
        /\ new[Len(new)].follows = snapc.seq - 1
        /\ new[Len(new)].context = snapc
        /\ new[Len(new)].dirty = inodes[i].i_wrbuffer_ref_head
        /\ inodes'[i].i_wrbuffer_ref_head = 0
        /\ DirtySum(inodes'[i]) = DirtySum(inodes[i])

\* the step leaves the cap-snaps and the head count of inode i as they were
CapSnapsKept(i) ==
    /\ inodes'[i].i_cap_snaps = inodes[i].i_cap_snaps
    /\ inodes'[i].i_wrbuffer_ref_head = inodes[i].i_wrbuffer_ref_head

\* the step calls ceph_queue_cap_snap once for each inode it calls it for
OneCallEach == \A j, k \in DOMAIN NewCalls : NewCalls[j].ino = NewCalls[k].ino => j = k

\* C21 as stated: a call of ceph_queue_cap_snap on an inode with no pending
\* cap-snap appends exactly one cap-snap at the tail, with follows =
\* context.seq - 1 and the head's dirty page count, and zeroes the head count,
\* so that the inode's dirty pages add up as before; a call on an inode with
\* a pending cap-snap changes neither the list nor the head count.
C21_QueueAppendsOne ==
    [][QueueStep =>
         /\ OneCallEach
         /\ \A k \in DOMAIN NewCalls :
               IF __ceph_have_pending_cap_snap(inodes[NewCalls[k].ino])
               THEN CapSnapsKept(NewCalls[k].ino)
               ELSE AppendedOne(NewCalls[k].ino, NewCalls[k].ctx)]_vars

\* C21 amended: a call of ceph_queue_cap_snap on an inode with no pending
\* cap-snap, for which the cap-snap can be allocated, appends exactly one
\* cap-snap at the tail, with follows = context.seq - 1 and the head's dirty
\* page count, and zeroes the head count, so that the inode's dirty pages add
\* up as before; a call on an inode with a pending cap-snap, or one that
\* cannot allocate, changes neither the list nor the head count; so does a
\* step for an inode it makes no call for.
C21_QueueAppendsOneIfAllocated ==
    [][QueueStep =>
         /\ OneCallEach
         /\ \A k \in DOMAIN NewCalls :
               IF __ceph_have_pending_cap_snap(inodes[NewCalls[k].ino])
                  \/ cur.msg.capoom
               THEN CapSnapsKept(NewCalls[k].ino)
               ELSE AppendedOne(NewCalls[k].ino, NewCalls[k].ctx)
         /\ \A i \in InodeIds :
               (\A k \in DOMAIN NewCalls : NewCalls[k].ino # i) => CapSnapsKept(i)]_vars

\* a message queued a cap-snap on an inode that had dirty pages on its head
\* and no pending cap-snap: the pages are now the cap-snap's
C21_Witness ==
    /\ pc = "finish"
    /\ ~cur.msg.capoom
    /\ \E k \in DOMAIN qlog :
          LET i == qlog[k].ino
              l == inodes[i].i_cap_snaps
          IN  /\ ~__ceph_have_pending_cap_snap(pre.inodes[i])
              /\ pre.inodes[i].i_wrbuffer_ref_head > 0
              /\ Len(l) = Len(pre.inodes[i].i_cap_snaps) + 1
              /\ l[Len(l)].dirty = pre.inodes[i].i_wrbuffer_ref_head
              /\ inodes[i].i_wrbuffer_ref_head = 0


(***************************************************************************)
(* The effect of one call of __ceph_finish_cap_snap.                       *)
(***************************************************************************)
\* call c of ceph_queue_cap_snap goes on to finish the cap-snap it appends:
\* no cap-snap is pending, the allocation succeeds, no write is in progress
Finishes(c) ==
    /\ ~__ceph_have_pending_cap_snap(inodes[c.ino])
    /\ ~cur.msg.capoom
    /\ ~inodes[c.ino].wr

\* the inodes the calls put on the snap flush list, in the order of the calls:
\* those whose cap-snap is finished with no dirty page
RECURSIVE FlushAdds(_)
FlushAdds(calls) ==
    IF calls = <<>> THEN <<>>
    ELSE (IF Finishes(calls[1]) /\ inodes[calls[1].ino].i_wrbuffer_ref_head = 0
          THEN <<calls[1].ino>> ELSE <<>>)
         \o FlushAdds(Tail(calls))

\* the cap-snap c was finished with the stat of inode i as it is before the
\* step, and reported flushable exactly if it has no dirty page
FinishedAs(c, i) ==
    /\ c.finish = "done"
    /\ ~c.writing
    /\ c.size = inodes[i].i_size
    /\ c.ret = IF c.dirty = 0 THEN 1 ELSE 0

LastCapSnap(i) == inodes'[i].i_cap_snaps[Len(inodes'[i].i_cap_snaps)]

\* the calls of __ceph_finish_cap_snap that ceph_queue_cap_snap makes
FinishInQueue ==
    QueueStep =>
        /\ \A k \in DOMAIN NewCalls :
              Finishes(NewCalls[k]) => FinishedAs(LastCapSnap(NewCalls[k].ino), NewCalls[k].ino)
        /\ flush' = flush \o FlushAdds(NewCalls)

\* the write to inode i completes
WriteDone(i) == pc = "idle" /\ inodes[i].wr /\ ~inodes'[i].wr

\* the call of __ceph_finish_cap_snap at the end of a write, on the pending
\* cap-snap: with dirty pages it stays on the inode, finished, and the flush
\* list is as before; without, the caller flushes it at once
FinishAtWriteDone(i) ==
    LET k == FirstWriting(inodes[i].i_cap_snaps)
    IN  (WriteDone(i) /\ k # 0) =>
            /\ flush' = flush
            /\ IF inodes[i].i_cap_snaps[k].dirty > 0
               THEN /\ Len(inodes'[i].i_cap_snaps) = Len(inodes[i].i_cap_snaps)
                    /\ FinishedAs(inodes'[i].i_cap_snaps[k], i)
               ELSE \A j \in DOMAIN inodes'[i].i_cap_snaps :
                        inodes'[i].i_cap_snaps[j].dirty > 0

\* an inode is on the snap flush list for a finished cap-snap that has no
\* dirty page, and a cap-snap reported flushable has none
FlushListClean ==
    /\ \A n \in DOMAIN flush :
          \E c \in SeqToSet(inodes[flush[n]].i_cap_snaps) :
              c.finish = "done" /\ c.ret = 1 /\ c.dirty = 0
    /\ \A c \in CapSnaps :
          /\ c.ret = 1 => c.dirty = 0
          /\ c.finish = "done" <=> c.ret \in {0, 1}
          /\ c.finish = "none" <=> c.size = NULL

\* C22: __ceph_finish_cap_snap records the inode's size and times in the
\* cap-snap; for a cap-snap with dirty pages it leaves the snap flush list as
\* it is and returns 0, for one without it appends the inode to the list and
\* returns 1; no inode is put on the list for a cap-snap with dirty pages.
C22_FinishRecordsAndLists ==
    /\ [][FinishInQueue]_vars
    /\ [][\A i \in InodeIds : FinishAtWriteDone(i)]_vars
    /\ []FlushListClean

\* one message finished two cap-snaps: that of inode 11, which has dirty
\* pages of a file that grew, was reported not flushable; that of inode 12,
\* which has none, put inode 12 on the snap flush list
C22_Witness ==
    /\ pc = "finish"
    /\ flush = <<12>>
    /\ inodes[11].i_cap_snaps # <<>>
    /\ LET c == inodes[11].i_cap_snaps[Len(inodes[11].i_cap_snaps)]
       IN  c.finish = "done" /\ c.ret = 0 /\ c.dirty > 0 /\ c.size > 0


(***************************************************************************)
(* Context builds that fail on allocation.                                 *)
(***************************************************************************)
\* the returns of build_snap_context for realm x in the current message
BuildsOf(x) == {k \in DOMAIN cur.blog : cur.blog[k].ino = x}

\* the last build of realm x in the current message failed
LastBuildFailed(x) ==
    /\ BuildsOf(x) # {}
    /\ cur.blog[Max(BuildsOf(x))].err # 0

\* ceph_update_snap_trace has returned to ceph_handle_snap
TraceDone == pc = "finish"

\* the rebuild at the end of the trace ran, from the last encoded realm
Rebuilt == TraceDone /\ cur.invalidate # 0

\* C23: when ceph_update_snap_trace has returned, a realm whose context build
\* failed (for want of memory for its own context or for its parent's) has
\* no cached context, not the one it had before; the rebuild went on to every
\* realm below the last realm of the trace; and the trace returned its first
\* realm, not an error.
C23_FailedBuildClearsContext ==
    /\ TraceDone =>
          /\ \A x \in DOMAIN realms :
                LastBuildFailed(x) => realms[x].cached_context = NullContext
          /\ cur.realm = cur.msg.trace[1].ino
          /\ cur.realm \in DOMAIN realms
    /\ Rebuilt =>
          \A x \in Subtree(cur.msg.trace[cur.n].ino) : BuildsOf(x) # {}
    /\ pc = "bad" => cur.msg.trunc

\* the rebuild began at a realm whose context could not be allocated and
\* went on to its child, which had a context; the allocation failed again
\* when the child's build built the parent's context, and neither has one now
C23_Witness ==
    /\ Rebuilt
    /\ \E x \in DOMAIN realms :
          /\ x \in DOMAIN pre.realms
          /\ pre.realms[x].cached_context.valid
          /\ realms[x].cached_context = NullContext
          /\ LastBuildFailed(x)
          /\ HasParent(x)
          /\ realms[x].parent = cur.msg.trace[cur.n].ino
          /\ Cardinality(BuildsOf(realms[x].parent)) = 2
          /\ LastBuildFailed(realms[x].parent)
          /\ realms[realms[x].parent].cached_context = NullContext

(***************************************************************************)
(* The five fields a trace sets in a realm.                                *)
(***************************************************************************)
\* seq, created, parent_since, snaps and prior_parent_snaps of a realm or of
\* an encoded realm
Five(r) == <<r.seq, r.created, r.parent_since, r.snaps, r.prior_parent_snaps>>

\* a pass of the loop of ceph_update_snap_trace, however it ends
AnyPass == pc = "trace" /\ cur.n < Len(cur.msg.trace)

\* the encoded realm the pass decodes
Encoded == cur.msg.trace[cur.n + 1]

\* C24: the seq of a realm in the index never decreases; the only step that
\* changes a realm's seq, created, parent_since, snaps or prior_parent_snaps
\* is a pass over an encoded realm of that ino with a greater seq, and it
\* sets all five to the encoded values; a pass over an encoded realm whose
\* seq is not greater leaves them.
C24_FiveFieldsTogether ==
    [][\A x \in DOMAIN realms \cap DOMAIN realms' :
          /\ realms'[x].seq >= realms[x].seq
          /\ Five(realms'[x]) # Five(realms[x]) =>
                /\ AnyPass
                /\ Encoded.ino = x
                /\ Encoded.seq > realms[x].seq
                /\ Five(realms'[x]) = Five(Encoded)]_vars


(***************************************************************************)
(* The child realms a split moves.                                         *)
(***************************************************************************)
\* a split has been handled to its end
SplitHandled == pc = "done" /\ cur.msg.op = "SPLIT"

\* the realm the first encoded realm of the trace describes
NewRealmOf(m) == m.trace[1].ino

\* the realms that have realm c on their list of children
ParentsListing(c) == {y \in DOMAIN realms : c \in SeqToSet(realms[y].children)}

C27_FlushListNoDup == NoDup(flush)


-----------------------------------------------------------------------------
(* C26: flush_snaps drains the list and returns holding nothing *)

\* ceph_handle_snap is about to release snap_rwsem and call flush_snaps
BeforeFlush == pc = "finish" /\ ~FinishWork.oops

\* flush_snaps has returned with the snap flush list empty
FlushReturned == pc = "done" /\ flush = <<>>

\* C26: whenever ceph_handle_snap reaches its call of flush_snaps, each
\* per-inode flush unlinking its inode, flush_snaps eventually returns with
\* the snap flush list empty.
C26_FlushDrains == BeforeFlush ~> FlushReturned

\* a thread that has left flush_snaps, as every run of ceph_handle_snap ends
\* with it, holds neither snap_flush_lock nor an inode's spinlock, and took
\* snap_flush_lock only with snap_rwsem released
FlushHoldsNothing ==
    \A t \in Threads :
        /\ ~Busy(t) => lk[t].held = <<>>
        /\ (snap_flush_lock \in HeldBy(t) /\ snap_rwsem \in HeldBy(t))
              => \E i \in InodeIds : i_lock(i) \in HeldBy(t)

-----------------------------------------------------------------------------
(* C28: the references a realm holds cover its children and its inodes *)

\* the inodes whose i_snap_realm is the realm x
InodesOf(x) == {i \in InodeIds : inodes[i].i_snap_realm = x}

\* no parent pointer and no inode realm pointer refers to a freed realm
NoDangling ==
    /\ \A y \in DOMAIN realms :
          realms[y].parent # NULL => realms[y].parent \in DOMAIN realms
    /\ \A i \in InodeIds :
          inodes[i].i_snap_realm # NULL => inodes[i].i_snap_realm \in DOMAIN realms

\* C28: in every state every realm of the index has at least as many
\* references as there are realms whose parent it is plus inodes that belong
\* to it, no count is negative, and no parent pointer or inode realm pointer
\* refers to a realm that was freed.
C28_RefsCoverPointers ==
    /\ \A x \in DOMAIN realms :
          /\ realms[x].nref >= 0
          /\ realms[x].nref >= Cardinality(ChildrenOf(realms, x)) + Cardinality(InodesOf(x))
    /\ NoDangling

-----------------------------------------------------------------------------
(* C29: ceph_queue_cap_snap is given a context *)

\* C29: every call of ceph_queue_cap_snap made for the message being handled,
\* by ceph_update_snap_trace or by the first loop of a split, was given a
\* context that is not NULL, also after a build of the realm's context failed
\* on allocation.
C29_QueuedWithContext == \A k \in DOMAIN qlog : qlog[k].ctx # NullContext

-----------------------------------------------------------------------------
(* librados: the global client behind the init counter *)

\* rados_initialize: under rados_init_mutex, make the client if the counter
\* is zero, and count the call
rados_initialize ==
    /\ ~rados.crashed
    /\ rados.ninit < MaxCalls
    /\ rados' =
          IF rados.rados_initialized = 0
          THEN [rados EXCEPT !.radosp = rados.created + 1,
                             !.clients = @ \cup {rados.created + 1},
                             !.created = @ + 1,
                             !.rados_initialized = @ + 1,
                             !.ninit = @ + 1]
          ELSE [rados EXCEPT !.rados_initialized = @ + 1,
                             !.ninit = @ + 1]
    /\ UNCHANGED <<engine, lk, net, two>>

\* delete radosp: of a null pointer nothing
DeleteClient(r) ==
    IF r.radosp = NULL THEN r
    ELSE [r EXCEPT !.clients = @ \ {r.radosp}, !.deleted = @ + 1]

\* rados_deinitialize: under rados_init_mutex, count down, delete the client
\* if the counter is now zero, and clear the pointer
rados_deinitialize ==
    /\ ~rados.crashed
    /\ rados.ndeinit < MaxCalls
    /\ LET r == [rados EXCEPT !.rados_initialized = @ - 1, !.ndeinit = @ + 1]
       IN  rados' = [(IF r.rados_initialized = 0 THEN DeleteClient(r) ELSE r)
                        EXCEPT !.radosp = NULL]
    /\ UNCHANGED <<engine, lk, net, two>>

\* how a call through radosp may go: through a null pointer the process
\* faults or the call returns whatever it finds
Outcomes(r) ==
    IF r.radosp = NULL THEN {"fault", "garbage"}
    ELSE IF r.radosp \notin r.clients THEN {"fault", "garbage"}
    ELSE {"ok"}

\* rados_open_pool: radosp->lookup_pool(name), no lock taken
rados_open_pool ==
    /\ ~rados.crashed
    /\ \E o \in Outcomes(rados) :
          rados' = [rados EXCEPT !.last = o, !.crashed = (o = "fault")]
    /\ UNCHANGED <<engine, lk, net, two>>

NextRados ==
    \/ rados_initialize
    \/ rados_deinitialize
    \/ rados_open_pool

SpecRados == Init /\ [][NextRados]_vars

\* C30: in every state the global client pointer is non-null exactly when
\* the init counter is greater than zero; after n calls of rados_initialize
\* and fewer than n of rados_deinitialize the pointer is at a client that
\* exists, so rados_open_pool can use it; one client exists while the counter
\* is positive and none otherwise (made once on 0 to 1, destroyed once on 1
\* to 0); and the counter is never negative.
C30_ClientIffInitialized ==
    /\ rados.rados_initialized >= 0
    /\ (rados.radosp # NULL) <=> (rados.rados_initialized > 0)
    /\ rados.ninit > rados.ndeinit => rados.radosp \in rados.clients
    /\ rados.clients = (IF rados.rados_initialized > 0 THEN {rados.radosp} ELSE {})
    /\ rados.last \in {"none", "ok"}

\* two calls of rados_initialize, one of rados_deinitialize, and then
\* rados_open_pool goes through a null pointer
TwoInitsOneDeinit ==
    /\ rados.ninit = 2 /\ rados.ndeinit = 1
    /\ rados.rados_initialized = 1 /\ rados.radosp = NULL
    /\ rados.last \in {"fault", "garbage"}

=============================================================================
